---- MODULE Spec2Model ----
(***************************************************************************)
(* Ledger and settlement engine of the CYAN casino bot (src/bot_slash.py). *)
(*                                                                         *)
(* The bot is an asyncio program: every interaction runs a handler         *)
(* coroutine, and handlers interleave at their suspension points only.     *)
(* The awaited network calls of discord.py are suspension points.  The     *)
(* helpers get_balance / set_balance / add_transaction each acquire        *)
(* db_lock, and asyncio.Lock.acquire suspends its caller only when the     *)
(* lock is held or has waiters; the one handler that holds db_lock across  *)
(* a suspension point is /daily, whose rejection message is awaited inside *)
(* the async with block.  Each action below is the code of one handler     *)
(* between two calls that may suspend it; cpu names the handler that has   *)
(* not been suspended since its last step, which then is the only one to   *)
(* take a step.  The synchronous code between two awaits (sqlite3 calls    *)
(* included) belongs to one step.                                          *)
(***************************************************************************)
EXTENDS Integers, Sequences, FiniteSets, TLC

\* ------------------------------------------------------------ configuration
MIN_BET == 10
MAX_BET == 100000
DAILY_AMOUNT == 50
DAILY_COOLDOWN == 24

\* ------------------------------------------------------------------ bounds
MaxTasks == 2          \* handlers of the ledger specifications
InitBal == 20          \* balance of every account in the initial state
MaxClock == 24         \* the clock (hours) stops advancing here
MaxRedeemTasks == 3    \* handlers of the redemption specification
MaxGiftTasks == 3      \* handlers of the gift specification

\* The catalog of the initial state: one reward, of this cost.
RewardCost == 10

\* Game dimensions: MinesView(size = 5), TowerView(rows = 5,
\* choices_per_row = 3), full_mult.
MinesSize == 5
TowerRows == 5
TowerChoices == 3
TOWER_FULL_MULT == 4

Users == {1, 2}
BetInputs == {5, 45}           \* what a user types into the bet modal
GiftAmounts == {0, 10, 30}
SetAmounts == {-1, 5}
TickHours == {12}
Notes == {"a", "b"}            \* what staff type into the note / reason modal
NumberTexts == -1..38          \* the integers typed into the roulette number modal
Sides == {"heads", "tails"}
Symbols == {"cherry", "lemon", "orange", "star", "seven"}
NoTime == -1
ClaimedBefore == {2}           \* users whose last /daily was at hour 0

VARIABLES
    balance,         \* users.balance        (a missing row reads as 0)
    last_daily,      \* users.last_daily     (NoTime = NULL)
    transactions,    \* the transactions table, in insertion order
    balance_writes,  \* history: number of writes of users.balance, per user
    gate,            \* db_lock: 0 when free, else the handler holding it
    waiters,         \* db_lock._waiters: the handlers suspended in acquire()
    cpu,             \* the handler running since its last suspension point, or 0
    now,             \* wall clock, in hours
    task,            \* the handlers: position and local variables of each
    rewards,         \* the rewards table: reward id -> cost_cyan (0 = no row)
    redeems,         \* the redeems table, by request id
    staff_channel,   \* settings["staff_channel_id"] is set
    reviews,         \* request ids whose RedeemReviewView was posted to staff
    dms,             \* direct messages sent to requesting users
    channels,        \* ticket channels created, in creation order
    session          \* the MinesView / TowerView object under study

redeemVars == <<rewards, redeems, staff_channel, reviews, dms, channels>>
vars == <<balance, last_daily, transactions, balance_writes, gate, waiters, cpu,
          now, task, redeemVars, session>>

\* ------------------------------------------------------------------ helpers
Idle == [op |-> "idle", pc |-> "idle", user |-> 0, bal |-> 0,
         amt |-> 0, ttype |-> "", target |-> 0, note |-> "", resp |-> ""]

Tasks == DOMAIN task

\* Handlers are interchangeable: they are dispatched in the order of their ids.
CanStart(t) ==
    /\ task[t].pc = "idle"
    /\ \A s \in Tasks : s < t => task[s].pc # "idle"

At(t, op, pc) == task[t].op = op /\ task[t].pc = pc

\* A handler is dispatched, or the first waiter of db_lock is one that was
\* dispatched and has been suspended in its first acquire() since.
Starts(t) == CanStart(t) \/ task[t].pc = "queued"

\* The handler returns: its locals are gone, its response stays.
Returned(op, u, resp) == [Idle EXCEPT !.op = op, !.pc = "done", !.resp = resp]

\* The handler awaits the delivery of its response and returns.
Finish(t, resp) ==
    /\ task' = [task EXCEPT ![t] = Returned(task[t].op, task[t].user, resp)]
    /\ cpu' = 0

\* The same for a handler that answers with a refusal.
Reject(t, op, u, resp) ==
    /\ task' = [task EXCEPT ![t] = Returned(op, u, resp)]
    /\ cpu' = 0

\* Variant: a bet below MIN_BET is let through.
clamp_bet_no_floor(bet) == IF bet > MAX_BET THEN MAX_BET ELSE bet

clamp_bet(bet) ==
    IF bet < MIN_BET THEN MIN_BET
    ELSE IF bet > MAX_BET THEN MAX_BET
    ELSE bet

\* The bet of a casino panel: MIN_BET, or what BetModal.on_submit clamped.
ViewBets == {MIN_BET} \cup {clamp_bet(b) : b \in BetInputs}

\* asyncio.Lock.acquire returns without suspending the caller exactly when
\* the lock is free and no handler waits for it.
Uncontended == gate = 0 /\ waiters = <<>>

Waiting(t) == \E i \in DOMAIN waiters : waiters[i] = t

\* Variant: every call of a helper is a suspension point.
Yields(t) == 0

\* A step that ends at a call of get_balance / set_balance / add_transaction
\* ends at no suspension point when acquire returns at once: the handler
\* keeps running.
Continues(t) == t

\* The event loop runs a handler that is not in db_lock.acquire (a dispatch,
\* or the completion of a network call it awaited) when no handler runs.
Scheduled == cpu = 0 /\ UNCHANGED waiters

\* async with db_lock: handler t enters the block, either because acquire
\* returned at once or because t is the first waiter, woken by the release
\* of the lock; the lock is released again at the end of the step, which
\* wakes the next waiter.
Enter(t) ==
    /\ gate = 0
    /\ \/ cpu \in {0, t} /\ waiters = <<>>
       \/ cpu = 0 /\ waiters # <<>> /\ Head(waiters) = t
    /\ waiters' = IF waiters = <<>> THEN waiters ELSE Tail(waiters)

\* The positions of a handler at which its next step enters db_lock.
AcquirePcs == {"get", "set", "tx", "set_sender", "get_recv", "set_recv",
               "tx_send", "tx_recv"}

\* acquire() finds the lock held, or handlers waiting for it: handler t joins
\* the waiters and is suspended.
Block(t) ==
    /\ cpu \in {0, t}
    /\ ~Waiting(t)
    /\ ~Uncontended
    /\ \/ CanStart(t) /\ task' = [task EXCEPT ![t].pc = "queued"]
       \/ task[t].pc \in AcquirePcs /\ UNCHANGED task
    /\ waiters' = Append(waiters, t)
    /\ cpu' = 0
    /\ UNCHANGED <<balance, last_daily, transactions, balance_writes, gate, now,
                   rewards, redeems, staff_channel, reviews, dms, channels, session>>

get_balance(u) == balance[u]

set_balance(u, new_bal) ==
    /\ balance' = [balance EXCEPT ![u] = new_bal]
    /\ balance_writes' = [balance_writes EXCEPT ![u] = @ + 1]

\* Variant: the record is not written.
add_transaction_dropped(u, ttype, amount) == UNCHANGED transactions

add_transaction(u, ttype, amount) ==
    transactions' = Append(transactions, [user |-> u, type |-> ttype, amount |-> amount])

\* A game handler of user u that has read bal and decided the record to write.
Decided(t, op, u, bal, ttype, amt) ==
    /\ task' = [task EXCEPT ![t] = [Idle EXCEPT !.op = op, !.pc = "tx", !.user = u,
                                     !.bal = bal, !.ttype = ttype, !.amt = amt]]
    /\ cpu' = Continues(t)

\* The games write the record first and the balance second.
GameTx(t, op) ==
    /\ At(t, op, "tx")
    /\ Enter(t)
    /\ add_transaction(task[t].user, task[t].ttype, task[t].amt)
    /\ task' = [task EXCEPT ![t].pc = "set"]
    /\ cpu' = Continues(t)
    /\ UNCHANGED <<balance, last_daily, balance_writes, gate, now, redeemVars, session>>

GameSet(t, op) ==
    /\ At(t, op, "set")
    /\ Enter(t)
    /\ set_balance(task[t].user, task[t].bal + task[t].amt)
    /\ Finish(t, "ok")
    /\ UNCHANGED <<last_daily, transactions, gate, now, redeemVars, session>>

\* ----------------------------------------------------------------- coinflip
\* Variant: the bet check is missing.
BetNeverTooHigh(bet, bal) == FALSE

BetTooHigh(bet, bal) == bet > bal

\* Variant: a win pays twice the bet on top of the balance.
coinflip_pays_double(choice, result, bet) ==
    IF choice = result THEN <<"coinflip_win", 2 * bet>> ELSE <<"coinflip_loss", -bet>>

\* win = (choice == result): the type and the amount of the record, which is
\* also what is added to the balance read.
coinflip_outcome(choice, result, bet) ==
    IF choice = result THEN <<"coinflip_win", bet>> ELSE <<"coinflip_loss", -bet>>

\* bal = await get_balance(); the bet check; the draw.
CoinflipGet(t) ==
    /\ Starts(t)
    /\ Enter(t)
    /\ \E u \in Users, view_bet \in ViewBets :
         LET bal == get_balance(u)
             bet == clamp_bet(view_bet)
         IN IF BetTooHigh(bet, bal)
            THEN Reject(t, "coinflip", u, "InsufficientFunds")
            ELSE \E choice \in Sides, result \in Sides :
                   LET outcome == coinflip_outcome(choice, result, bet)
                   IN Decided(t, "coinflip", u, bal, outcome[1], outcome[2])
    /\ UNCHANGED <<balance, last_daily, transactions, balance_writes, gate, now, redeemVars, session>>

CoinflipTx(t) == GameTx(t, "coinflip")

CoinflipSet(t) == GameSet(t, "coinflip")

\* -------------------------------------------------------------------- slots
\* Variant: only three equal symbols pay.
SlotsMultPairsLose(reel) ==
    IF Cardinality({reel[i] : i \in 1..3}) = 1 THEN 10 ELSE 0

\* len(set(reel)) == 1: 10; any(reel.count(s) == 2 for s in reel): 2; else 0
SlotsMult(reel) ==
    IF Cardinality({reel[i] : i \in 1..3}) = 1 THEN 10
    ELSE IF \E i \in 1..3 : Cardinality({j \in 1..3 : reel[j] = reel[i]}) = 2 THEN 2
    ELSE 0

\* reel = [random.choice(symbols) for _ in range(3)]: the multipliers drawn.
SlotsOutcomes == {SlotsMult(reel) : reel \in [1..3 -> Symbols]}

SlotsGet(t) ==
    /\ Starts(t)
    /\ Enter(t)
    /\ \E u \in Users, view_bet \in ViewBets :
         LET bal == get_balance(u)
             bet == clamp_bet(view_bet)
         IN IF BetTooHigh(bet, bal)
            THEN Reject(t, "slots", u, "InsufficientFunds")
            ELSE \E mult \in SlotsOutcomes :
                   IF mult # 0
                   THEN Decided(t, "slots", u, bal, "slots_win", bet * mult)
                   ELSE Decided(t, "slots", u, bal, "slots_loss", -bet)
    /\ UNCHANGED <<balance, last_daily, transactions, balance_writes, gate, now, redeemVars, session>>

SlotsTx(t) == GameTx(t, "slots")

SlotsSet(t) == GameSet(t, "slots")

\* ----------------------------------------------------------------- roulette
ROULETTE_RED == {1,3,5,7,9,12,14,16,18,19,21,23,25,27,30,32,34,36}
ROULETTE_BLACK == {2,4,6,8,10,11,13,15,17,20,22,24,26,28,29,31,33,35}
RouletteKinds == {"red", "black", "green", "number"}

\* Variant: the test for 0 is missing.
RouletteColorNoGreen(result) ==
    IF result \in ROULETTE_RED THEN "red" ELSE "black"

\* color = "green" if result == 0 else ("red" if result in ROULETTE_RED else "black")
RouletteColor(result) ==
    IF result = 0 THEN "green"
    ELSE IF result \in ROULETTE_RED THEN "red" ELSE "black"

RouletteWinMult(kind, number, result) ==
    CASE kind = "red"    -> IF RouletteColor(result) = "red" THEN 2 ELSE 0
      [] kind = "black"  -> IF RouletteColor(result) = "black" THEN 2 ELSE 0
      [] kind = "green"  -> IF result = 0 THEN 14 ELSE 0
      [] kind = "number" -> IF result = number THEN 36 ELSE 0
      [] OTHER -> 0

\* Variant: every number typed is accepted.
NumberNeverInvalid(num) == FALSE

\* if num < 0 or num > 36: raise ValueError
NumberInvalid(num) == num < 0 \/ num > 36

\* The numbers that _spin_number passes on to _spin.
SpinNumbers == {num \in NumberTexts : ~NumberInvalid(num)}

\* RouletteView._spin_number on a number out of range: "Enter a valid number
\* from 0 to 36."  The handler returns before _spin, without get_balance.
RouletteNumberInvalid(t) ==
    /\ CanStart(t)
    /\ Scheduled
    /\ \E u \in Users, num \in NumberTexts :
         /\ NumberInvalid(num)
         /\ Reject(t, "roulette_number", u, "InvalidNumber")
    /\ UNCHANGED <<balance, last_daily, transactions, balance_writes, gate, now,
                   redeemVars, session>>

\* The multipliers a spin yields: any bet kind, any validated number, any
\* result = random.randint(0, 36).
RouletteOutcomes ==
    {RouletteWinMult(kind, number, result) :
        kind \in RouletteKinds, number \in SpinNumbers, result \in 0..36}

RouletteGet(t) ==
    /\ Starts(t)
    /\ Enter(t)
    /\ \E u \in Users, view_bet \in ViewBets :
         LET bal == get_balance(u)
             bet_amt == clamp_bet(view_bet)
         IN IF BetTooHigh(bet_amt, bal)
            THEN Reject(t, "roulette", u, "InsufficientFunds")
            ELSE \E win_mult \in RouletteOutcomes :
                   IF win_mult # 0
                   THEN Decided(t, "roulette", u, bal, "roulette_win", bet_amt * win_mult)
                   ELSE Decided(t, "roulette", u, bal, "roulette_loss", -bet_amt)
    /\ UNCHANGED <<balance, last_daily, transactions, balance_writes, gate, now, redeemVars, session>>

RouletteTx(t) == GameTx(t, "roulette")

RouletteSet(t) == GameSet(t, "roulette")

\* -------------------------------------------------------------------- daily
\* Variant: the cooldown check is missing.
NeverOnCooldown(last) == FALSE

\* if last and now - datetime.fromisoformat(last) < timedelta(hours=24)
DailyOnCooldown(last) == last # NoTime /\ now - last < DAILY_COOLDOWN

\* Variant: the return inside the block leaves db_lock held.
release_skipped(t) == t

\* Lock.__aexit__, run on every way out of an `async with db_lock` block,
\* the return inside it included: the lock is free.
release(t) == 0

\* async with db_lock: SELECT, the cooldown check, and either the UPDATE (the
\* lock is released on leaving the block) or the rejection, whose message is
\* awaited inside the block, with the lock held.
DailyClaim(t) ==
    /\ Starts(t)
    /\ Enter(t)
    /\ \E u \in Users :
         IF DailyOnCooldown(last_daily[u])
         THEN /\ gate' = t
              /\ task' = [task EXCEPT ![t] = [Idle EXCEPT !.op = "daily",
                                  !.pc = "reject_send", !.user = u]]
              /\ cpu' = 0
              /\ UNCHANGED <<balance, last_daily, balance_writes>>
         ELSE /\ set_balance(u, balance[u] + DAILY_AMOUNT)
              /\ last_daily' = [last_daily EXCEPT ![u] = now]
              /\ task' = [task EXCEPT ![t] = [Idle EXCEPT !.op = "daily", !.pc = "tx",
                                  !.user = u, !.bal = balance[u] + DAILY_AMOUNT]]
              /\ cpu' = Continues(t)
              /\ UNCHANGED gate
    /\ UNCHANGED <<transactions, now, redeemVars, session>>

\* The rejection message has been sent; the return leaves the block, which
\* releases the lock and wakes the first waiter.
DailyRejectSend(t) ==
    /\ At(t, "daily", "reject_send")
    /\ Scheduled
    /\ gate = t
    /\ gate' = release(t)
    /\ Finish(t, "AlreadyClaimed")
    /\ UNCHANGED <<balance, last_daily, transactions, balance_writes, now, redeemVars, session>>

DailyTx(t) ==
    /\ At(t, "daily", "tx")
    /\ Enter(t)
    /\ add_transaction(task[t].user, "daily", DAILY_AMOUNT)
    /\ Finish(t, "ok")
    /\ UNCHANGED <<balance, last_daily, balance_writes, gate, now, redeemVars, session>>

\* The clock advances.
Tick ==
    /\ Scheduled
    /\ \E d \in TickHours : now + d <= MaxClock /\ now' = now + d
    /\ UNCHANGED <<cpu, balance, last_daily, transactions, balance_writes, gate, task, redeemVars, session>>

\* --------------------------------------------------------------------- gift
GiftRefused(sender, recipient, amount) == recipient = sender \/ amount <= 0

GiftTooMuch(amount, sender_bal) == amount > sender_bal

GiftGetSender(t) ==
    /\ Starts(t)
    /\ Enter(t)
    /\ \E u \in Users, v \in Users, amount \in GiftAmounts :
         IF GiftRefused(u, v, amount)
         THEN CanStart(t) /\ Reject(t, "gift", u, "Refused")
         ELSE LET sender_bal == get_balance(u)
              IN IF GiftTooMuch(amount, sender_bal)
                 THEN Reject(t, "gift", u, "InsufficientFunds")
                 ELSE /\ task' = [task EXCEPT ![t] = [Idle EXCEPT !.op = "gift",
                                    !.pc = "set_sender", !.user = u, !.target = v,
                                    !.amt = amount, !.bal = sender_bal]]
                      /\ cpu' = Continues(t)
    /\ UNCHANGED <<balance, last_daily, transactions, balance_writes, gate, now, redeemVars, session>>

GiftSetSender(t) ==
    /\ At(t, "gift", "set_sender")
    /\ Enter(t)
    /\ set_balance(task[t].user, task[t].bal - task[t].amt)
    /\ task' = [task EXCEPT ![t].pc = "get_recv"]
    /\ cpu' = Continues(t)
    /\ UNCHANGED <<last_daily, transactions, gate, now, redeemVars, session>>

GiftGetRecv(t) ==
    /\ At(t, "gift", "get_recv")
    /\ Enter(t)
    /\ task' = [task EXCEPT ![t].pc = "set_recv", ![t].bal = get_balance(task[t].target)]
    /\ cpu' = Continues(t)
    /\ UNCHANGED <<balance, last_daily, transactions, balance_writes, gate, now, redeemVars, session>>

GiftSetRecv(t) ==
    /\ At(t, "gift", "set_recv")
    /\ Enter(t)
    /\ set_balance(task[t].target, task[t].bal + task[t].amt)
    /\ task' = [task EXCEPT ![t].pc = "tx_send"]
    /\ cpu' = Continues(t)
    /\ UNCHANGED <<last_daily, transactions, gate, now, redeemVars, session>>

GiftTxSend(t) ==
    /\ At(t, "gift", "tx_send")
    /\ Enter(t)
    /\ add_transaction(task[t].user, "gift_send", -task[t].amt)
    /\ task' = [task EXCEPT ![t].pc = "tx_recv"]
    /\ cpu' = Continues(t)
    /\ UNCHANGED <<balance, last_daily, balance_writes, gate, now, redeemVars, session>>

GiftTxRecv(t) ==
    /\ At(t, "gift", "tx_recv")
    /\ Enter(t)
    /\ add_transaction(task[t].target, "gift_recv", task[t].amt)
    /\ Finish(t, "ok")
    /\ UNCHANGED <<balance, last_daily, balance_writes, gate, now, redeemVars, session>>

\* ------------------------------------------------------------------ setcyan
SetcyanRefused(is_owner, amount) == ~is_owner \/ amount < 0

SetcyanSet(t) ==
    /\ Starts(t)
    /\ Enter(t)
    /\ \E is_owner \in BOOLEAN, u \in Users, amount \in SetAmounts :
         IF SetcyanRefused(is_owner, amount)
         THEN /\ CanStart(t)
              /\ Reject(t, "setcyan", u, "Refused")
              /\ UNCHANGED <<balance, balance_writes>>
         ELSE /\ set_balance(u, amount)
              /\ task' = [task EXCEPT ![t] = [Idle EXCEPT !.op = "setcyan", !.pc = "tx",
                                               !.user = u, !.amt = amount]]
              /\ cpu' = Continues(t)
    /\ UNCHANGED <<last_daily, transactions, gate, now, redeemVars, session>>

SetcyanTx(t) ==
    /\ At(t, "setcyan", "tx")
    /\ Enter(t)
    /\ add_transaction(task[t].user, "owner_set", task[t].amt)
    /\ Finish(t, "ok")
    /\ UNCHANGED <<balance, last_daily, balance_writes, gate, now, redeemVars, session>>

\* ------------------------------------------------- rewards (staff commands)
\* /removereward: DELETE FROM rewards WHERE id = rid.
remove_reward ==
    /\ Scheduled
    /\ \E rid \in DOMAIN rewards :
         /\ rewards[rid] # 0
         /\ rewards' = [rewards EXCEPT ![rid] = 0]
    /\ UNCHANGED <<balance, last_daily, transactions, balance_writes, gate, cpu, now,
                   task, redeems, staff_channel, reviews, dms, channels, session>>

setstaffchannel ==
    /\ Scheduled
    /\ ~staff_channel
    /\ staff_channel' = TRUE
    /\ UNCHANGED <<balance, last_daily, transactions, balance_writes, gate, cpu, now,
                   task, rewards, redeems, reviews, dms, channels, session>>

\* ------------------------------------------- redeem: RewardSelect.callback
\* The option chosen was listed when the panel was built; the row is looked
\* up again now.
RedeemLookup(t) ==
    /\ CanStart(t)
    /\ Scheduled
    /\ \E u \in Users, rid \in DOMAIN rewards :
         IF rewards[rid] = 0
         THEN Reject(t, "redeem", u, "InvalidReward")
         ELSE /\ task' = [task EXCEPT ![t] = [Idle EXCEPT !.op = "redeem", !.pc = "get",
                            !.user = u, !.target = rid, !.amt = rewards[rid]]]
              /\ cpu' = Continues(t)
    /\ UNCHANGED <<balance, last_daily, transactions, balance_writes, gate, now,
                   redeemVars, session>>

\* Variant: the balance check is missing.
CostNeverTooHigh(cost, bal) == FALSE

\* if cost > bal: "Not enough CYAN for that reward."
CostTooHigh(cost, bal) == cost > bal

RedeemGet(t) ==
    /\ At(t, "redeem", "get")
    /\ Enter(t)
    /\ LET bal == get_balance(task[t].user)
       IN IF CostTooHigh(task[t].amt, bal)
          THEN Finish(t, "InsufficientFunds")
          ELSE /\ task' = [task EXCEPT ![t].pc = "set", ![t].bal = bal]
               /\ cpu' = Continues(t)
    /\ UNCHANGED <<balance, last_daily, transactions, balance_writes, gate, now,
                   redeemVars, session>>

RedeemSet(t) ==
    /\ At(t, "redeem", "set")
    /\ Enter(t)
    /\ set_balance(task[t].user, task[t].bal - task[t].amt)
    /\ task' = [task EXCEPT ![t].pc = "tx"]
    /\ cpu' = Continues(t)
    /\ UNCHANGED <<last_daily, transactions, gate, now, redeemVars, session>>

\* add_transaction, then (without an await in between) the INSERT of the
\* pending request and the read of the staff channel setting.
RedeemTx(t) ==
    /\ At(t, "redeem", "tx")
    /\ Enter(t)
    /\ add_transaction(task[t].user, "redeem_request", -task[t].amt)
    /\ redeems' = Append(redeems,
          [user |-> task[t].user, amount |-> task[t].amt, status |-> "pending",
           reason |-> "", reward_id |-> task[t].target, ticket_channel_id |-> 0])
    /\ IF staff_channel
       THEN /\ task' = [task EXCEPT ![t] = [Idle EXCEPT !.op = "redeem", !.pc = "notify",
                          !.user = task[t].user, !.target = Len(redeems) + 1]]
            /\ cpu' = 0
       ELSE Finish(t, "ok")
    /\ UNCHANGED <<balance, last_daily, balance_writes, gate, now,
                   rewards, staff_channel, reviews, dms, channels, session>>

\* ch.send(embed, view=RedeemReviewView(request_id, ...)) has completed.
RedeemNotify(t) ==
    /\ At(t, "redeem", "notify")
    /\ Scheduled
    /\ reviews' = reviews \cup {task[t].target}
    /\ Finish(t, "ok")
    /\ UNCHANGED <<balance, last_daily, transactions, balance_writes, gate, now,
                   rewards, redeems, staff_channel, dms, channels, session>>

\* ------------------------------------------ RedeemReviewView._finalize
\* Variant: the status check is missing.
AlwaysPending(status) == TRUE

StillPending(status) == status = "pending"

\* Variant: a denial gives the charged amount back.
RefundsDenied(status, u, amount) ==
    IF status = "denied"
    THEN /\ set_balance(u, balance[u] + amount)
         /\ add_transaction(u, "redeem_refund", amount)
    ELSE UNCHANGED <<balance, balance_writes, transactions>>

\* _finalize calls none of set_balance / add_transaction, whatever the
\* decision: the amount charged at creation stays charged.
LedgerUntouched(status, u, amount) == UNCHANGED <<balance, balance_writes, transactions>>

\* The modal was submitted: SELECT status, the check and the UPDATE run
\* without an await in between.
Finalize(t) ==
    /\ CanStart(t)
    /\ Scheduled
    /\ cpu' = 0
    /\ \E request_id \in reviews, status \in {"approved", "denied"}, note \in Notes :
         IF ~StillPending(redeems[request_id].status)
         THEN /\ task' = [task EXCEPT ![t] = [Returned("resolve", 0, "AlreadyProcessed")
                                               EXCEPT !.target = request_id]]
              /\ UNCHANGED <<redeems, balance, balance_writes, transactions>>
         ELSE /\ redeems' = [redeems EXCEPT ![request_id].status = status,
                                            ![request_id].reason = note]
              /\ LedgerUntouched(status, redeems[request_id].user,
                                 redeems[request_id].amount)
              /\ task' = [task EXCEPT ![t] = [Idle EXCEPT !.op = "resolve", !.pc = "dm",
                            !.target = request_id, !.ttype = status, !.note = note]]
    /\ UNCHANGED <<last_daily, gate, now,
                   rewards, staff_channel, reviews, dms, channels, session>>

\* Variant: a ticket is opened whatever the decision.
OpensTicketAlways(status) == TRUE

\* if status == "approved": the ticket is opened.
OpensTicket(status) == status = "approved"

\* try: user.send(...) except: pass -- the message is delivered or not.
FinalizeDm(t) ==
    /\ At(t, "resolve", "dm")
    /\ Scheduled
    /\ cpu' = 0
    /\ \E delivered \in BOOLEAN :
         IF delivered
         THEN dms' = Append(dms, [request_id |-> task[t].target,
                                  status |-> task[t].ttype, note |-> task[t].note])
         ELSE UNCHANGED dms
    /\ IF OpensTicket(task[t].ttype)
       THEN task' = [task EXCEPT ![t].pc = "open"]
       ELSE task' = [task EXCEPT ![t] = [Returned("resolve", 0, "Denied")
                                          EXCEPT !.target = task[t].target]]
    /\ UNCHANGED <<balance, last_daily, transactions, balance_writes, gate, now,
                   rewards, redeems, staff_channel, reviews, channels, session>>

\* _open_ticket: guild.create_text_channel(...) returned, or raised; on
\* return the channel id is stored on the request.
FinalizeOpenTicket(t) ==
    /\ At(t, "resolve", "open")
    /\ Scheduled
    /\ cpu' = 0
    /\ \E created \in BOOLEAN :
         IF created
         THEN /\ channels' = Append(channels,
                    [request_id |-> task[t].target, open |-> TRUE, close_view |-> FALSE])
              /\ redeems' = [redeems EXCEPT
                    ![task[t].target].ticket_channel_id = Len(channels) + 1]
              /\ task' = [task EXCEPT ![t].pc = "ticket_send", ![t].amt = Len(channels) + 1]
         ELSE /\ task' = [task EXCEPT ![t] = [Returned("resolve", 0, "TicketError")
                                               EXCEPT !.target = task[t].target]]
              /\ UNCHANGED <<channels, redeems>>
    /\ UNCHANGED <<balance, last_daily, transactions, balance_writes, gate, now,
                   rewards, staff_channel, reviews, dms, session>>

\* ch.send(..., view=TicketCloseView(...)) has completed.
FinalizeTicketSend(t) ==
    /\ At(t, "resolve", "ticket_send")
    /\ Scheduled
    /\ cpu' = 0
    /\ channels' = [channels EXCEPT ![task[t].amt].close_view = TRUE]
    /\ task' = [task EXCEPT ![t] = [Returned("resolve", 0, "Approved")
                                     EXCEPT !.target = task[t].target]]
    /\ UNCHANGED <<balance, last_daily, transactions, balance_writes, gate, now,
                   rewards, redeems, staff_channel, reviews, dms, session>>

\* --------------------------------------------------- TicketCloseView.close
\* The Close Ticket button lives in the ticket channel.
CloseEnabled(ch) == channels[ch].open /\ channels[ch].close_view

Close(t) ==
    /\ CanStart(t)
    /\ Scheduled
    /\ cpu' = 0
    /\ \E ch \in DOMAIN channels :
         /\ CloseEnabled(ch)
         /\ redeems' = [redeems EXCEPT ![channels[ch].request_id].status = "completed"]
         /\ task' = [task EXCEPT ![t] = [Idle EXCEPT !.op = "close", !.pc = "delete",
                                          !.target = ch]]
    /\ UNCHANGED <<balance, last_daily, transactions, balance_writes, gate, now,
                   rewards, staff_channel, reviews, dms, channels, session>>

\* After asyncio.sleep(3): interaction.channel.delete(), errors ignored.
CloseDelete(t) ==
    /\ At(t, "close", "delete")
    /\ Scheduled
    /\ channels' = [channels EXCEPT ![task[t].target].open = FALSE]
    /\ Finish(t, "ok")
    /\ UNCHANGED <<balance, last_daily, transactions, balance_writes, gate, now,
                   rewards, redeems, staff_channel, reviews, dms, session>>

\* ------------------------------------------------------------ mines / tower
NoSession ==
    [game |-> "none", user |-> 0, bet |-> 0, alive |-> FALSE,
     mines |-> {}, revealed |-> {}, safe_total |-> 0, multiplier |-> 0,
     bombs |-> <<>>, current_row |-> 0, rows |-> 0,
     timed_out |-> FALSE,           \* the View's inactivity timeout has expired
     stale |-> FALSE,               \* history: the last pick that advanced was on a passed row
     writes |-> 0, records |-> 0,   \* history: ledger writes made for it
     start_bal |-> 0]               \* history: the user's balance at its start

Min(a, b) == IF a < b THEN a ELSE b
Max(a, b) == IF a > b THEN a ELSE b

\* (mines_count, full_clear_multiplier)
DIFFS == [easy |-> <<3, 2>>, normal |-> <<5, 3>>, hard |-> <<8, 5>>]

\* random.sample(range(total), mines_count): the layouts drawn in the model
\* are the first and the last mines_count tiles.
Samples(total, k) == {i..(i + k - 1) : i \in {0, total - k}}

\* ------------------------------------------------- binary64 floating point
\* A non-negative finite float is m * 2^e, with m a natural number held as a
\* sequence of limbs in base 2^13, most significant first (<<>> is 0).
\* Every arithmetic operation of Python on floats yields the exact result
\* rounded to MantissaBits significant bits, ties to even.
MantissaBits == 53

LimbBits == 13
Base == 2^LimbBits

RECURSIVE BitLength(_)
BitLength(n) == IF n = 0 THEN 0 ELSE 1 + BitLength(n \div 2)

RECURSIVE Limbs(_)
Limbs(n) == IF n = 0 THEN <<>> ELSE Append(Limbs(n \div Base), n % Base)

RECURSIVE LimbsInt(_)
LimbsInt(m) ==
    IF m = <<>> THEN 0 ELSE Base * LimbsInt(SubSeq(m, 1, Len(m) - 1)) + m[Len(m)]

RECURSIVE Trim(_)
Trim(m) == IF m = <<>> \/ m[1] # 0 THEN m ELSE Trim(Tail(m))

\* The number of significant bits of m.
Bits(m) ==
    LET t == Trim(m)
    IN IF t = <<>> THEN 0 ELSE LimbBits * (Len(t) - 1) + BitLength(t[1])

\* Bit j of m, bit 0 being the least significant.
BitAt(m, j) ==
    LET i == Len(m) - (j \div LimbBits)
    IN IF i < 1 THEN 0 ELSE (m[i] \div 2^(j % LimbBits)) % 2

\* m * k + carry, for an int k >= 0.
RECURSIVE TimesInt(_, _, _)
TimesInt(m, k, carry) ==
    IF m = <<>> THEN Limbs(carry)
    ELSE LET t == m[Len(m)] * k + carry
         IN Append(TimesInt(SubSeq(m, 1, Len(m) - 1), k, t \div Base), t % Base)

\* a + b + carry.
RECURSIVE PlusLimbs(_, _, _)
PlusLimbs(a, b, carry) ==
    IF a = <<>> /\ b = <<>> THEN Limbs(carry)
    ELSE LET t == (IF a = <<>> THEN 0 ELSE a[Len(a)])
                  + (IF b = <<>> THEN 0 ELSE b[Len(b)]) + carry
         IN Append(PlusLimbs(IF a = <<>> THEN a ELSE SubSeq(a, 1, Len(a) - 1),
                             IF b = <<>> THEN b ELSE SubSeq(b, 1, Len(b) - 1),
                             t \div Base), t % Base)

\* m * 2^s and floor(m / 2^s).
ShiftLeft(m, s) ==
    TimesInt(m, 2^(s % LimbBits), 0) \o [i \in 1..(s \div LimbBits) |-> 0]

ShiftRight(m, s) ==
    LET n == Len(m) - (s \div LimbBits)
        b == s % LimbBits
    IN IF n < 1 THEN <<>>
       ELSE Trim([i \in 1..n |->
                    (IF i = 1 THEN 0 ELSE (m[i - 1] % 2^b) * 2^(LimbBits - b))
                    + (m[i] \div 2^b)])

\* Round to nearest, ties to even, at MantissaBits significant bits.
fround(x) ==
    LET s == Bits(x.m) - MantissaBits
    IN IF s <= 0 THEN [m |-> Trim(x.m), e |-> x.e]
       ELSE LET kept == ShiftRight(x.m, s)
                half == BitAt(x.m, s - 1) = 1
                more == \E j \in 0..(s - 2) : BitAt(x.m, j) = 1
                up == half /\ (more \/ BitAt(x.m, s) = 1)
            IN [m |-> IF up THEN PlusLimbs(kept, <<1>>, 0) ELSE kept,
                e |-> x.e + s]

\* The first k limbs of r / b after the point (0 <= r < b), and what is left.
RECURSIVE FractionLimbs(_, _, _)
FractionLimbs(r, b, k) ==
    IF k = 0 THEN <<>>
    ELSE <<(r * Base) \div b>> \o FractionLimbs((r * Base) % b, b, k - 1)

RECURSIVE FractionLeft(_, _, _)
FractionLeft(r, b, k) ==
    IF k = 0 THEN r ELSE FractionLeft((r * Base) % b, b, k - 1)

\* a / b of two ints a >= 0, b > 0 (true division): six limbs of the
\* fraction, and one more bit that tells whether a remainder is left.
truediv(a, b) ==
    LET q == Limbs(a \div b) \o FractionLimbs(a % b, b, 6)
        left == IF FractionLeft(a % b, b, 6) = 0 THEN 0 ELSE 1
    IN fround([m |-> TimesInt(q, 2, left), e |-> -(6 * LimbBits + 1)])

\* x * k of a float and an int k >= 0 (the int converts exactly).
fmul(x, k) == fround([m |-> TimesInt(x.m, k, 0), e |-> x.e])

\* k + x of an int k >= 0 and a float.
fadd(k, x) ==
    LET e == IF x.e < 0 THEN x.e ELSE 0
    IN fround([m |-> PlusLimbs(ShiftLeft(Limbs(k), -e), ShiftLeft(x.m, x.e - e), 0),
               e |-> e])

\* int(x): truncation.
int(x) ==
    IF x.e >= 0 THEN LimbsInt(ShiftLeft(x.m, x.e))
    ELSE LimbsInt(ShiftRight(x.m, -x.e))


\* MinesView._payout_now / TowerView._payout_now: progress = done / total if total else 0;
\* int(bet * (1 + progress * (mult - 1))), in floating point.
payout_now(bet, done, total, mult) ==
    IF total = 0 THEN bet
    ELSE int(fmul(fadd(1, fmul(truediv(done, total), mult - 1)), bet))

\* The tiles clicked in the model: any mine, any revealed tile, and of the
\* safe tiles still hidden the one of lowest index (the code treats all
\* hidden safe tiles alike).
ClickedTiles(view) ==
    LET hidden == (0..(MinesSize * MinesSize - 1)) \ (view.mines \cup view.revealed)
    IN view.mines \cup view.revealed \cup {i \in hidden : \A j \in hidden : i <= j}

\* The bomb layouts drawn in the model: the bomb of row r is at r mod choices,
\* shifted by any offset.
TowerLayouts ==
    {[r \in 1..TowerRows |-> (r + k) % TowerChoices] : k \in 0..(TowerChoices - 1)}

\* Variant: the view goes on receiving clicks after its timeout.
DispatchesForever(view) == TRUE

\* super().__init__(timeout=timeout): discord.py routes a click to the
\* callbacks of a View until the View's timeout expires.
Dispatches(view) == ~view.timed_out

\* The timeout of the View expires.  Neither MinesView nor TowerView
\* overrides on_timeout, so no code of the bot runs.
SessionTimeout ==
    /\ Scheduled
    /\ session.game # "none"
    /\ ~session.timed_out
    /\ session' = [session EXCEPT !.timed_out = TRUE]
    /\ UNCHANGED <<balance, last_daily, transactions, balance_writes, gate, cpu, now,
                   task, redeemVars>>

\* Variant: the bet is taken from the balance when the session starts.
BetDebited(u, bet) ==
    /\ balance' = [balance EXCEPT ![u] = @ - bet]
    /\ UNCHANGED <<balance_writes, transactions>>

\* MinesView.__init__ / TowerView.__init__ store the bet in the view and
\* make no call to get_balance, set_balance or add_transaction.
BetNotDebited(u, bet) == UNCHANGED <<balance, balance_writes, transactions>>

\* MinesDifficultyView._start -> MinesView.__init__
MinesStart ==
    /\ Scheduled
    /\ session.game = "none"
    /\ \E u \in Users, view_bet \in ViewBets, key \in DOMAIN DIFFS :
         LET total == MinesSize * MinesSize
             mines_count == Min(Max(1, DIFFS[key][1]), total - 1)
         IN \E layout \in Samples(total, mines_count) :
              /\ session' = [NoSession EXCEPT !.game = "mines", !.user = u,
                               !.bet = clamp_bet(view_bet), !.alive = TRUE,
                               !.mines = layout, !.multiplier = DIFFS[key][2],
                               !.safe_total = total - mines_count,
                               !.start_bal = balance[u]]
              /\ BetNotDebited(u, clamp_bet(view_bet))
    /\ UNCHANGED <<last_daily, gate, cpu, now, task, redeemVars>>

\* CasinoMenuView.tower -> TowerView.__init__
TowerStart ==
    /\ Scheduled
    /\ session.game = "none"
    /\ \E u \in Users, view_bet \in ViewBets,
          layout \in TowerLayouts :
         /\ session' = [NoSession EXCEPT !.game = "tower", !.user = u,
                          !.bet = clamp_bet(view_bet), !.alive = TRUE,
                          !.bombs = layout, !.rows = TowerRows,
                          !.multiplier = TOWER_FULL_MULT, !.start_bal = balance[u]]
         /\ BetNotDebited(u, clamp_bet(view_bet))
    /\ UNCHANGED <<last_daily, gate, cpu, now, task, redeemVars>>

\* Variant: a panel answers to anyone.
guard_anyone(owner, clicker) == TRUE

\* _guard / the first test of on_click: interaction.user.id == self.user_id
guard(owner, clicker) == clicker = owner

\* A button of a CasinoMenuView or RouletteView pressed by someone who is
\* not its owner: "This panel belongs to someone else."
PanelRefuses(t) ==
    /\ CanStart(t)
    /\ Scheduled
    /\ \E owner \in Users, clicker \in Users :
         /\ ~guard(owner, clicker)
         /\ Reject(t, "panel", clicker, "NotYours")
    /\ UNCHANGED <<balance, last_daily, transactions, balance_writes, gate, now,
                   redeemVars, session>>

\* A handler of the session that goes on to settle: ttype and, for a win or a
\* cash-out, the amount are decided before the first await.  It settles the
\* account self.user_id; target keeps who clicked.
Settling(op, clicker, ttype, amt) ==
    [Idle EXCEPT !.op = op, !.pc = "get", !.user = session.user,
                 !.target = clicker, !.ttype = ttype, !.amt = amt]

IsLoss(ttype) == ttype \in {"mines_loss", "tower_loss"}

\* Variant: a full clear pays the multiple of the bet less the bet.
FullWinNet(bet, mult) == bet * (mult - 1)

\* win = self.bet * self.multiplier (mines), self.bet * self.full_mult (tower)
FullWin(bet, mult) == bet * mult

\* Variant: the alive check is missing.
NeverDead(view) == FALSE

\* if not self.alive: the click is answered "Game over."
NotAlive(view) == ~view.alive

\* Variant: every tile counts as revealed.
AlwaysRevealed(view, idx) == TRUE

\* if idx in self.revealed: return await interaction.response.defer()
AlreadyRevealed(view, idx) == idx \in view.revealed

\* MinesView._make_tile.on_click, up to its first await.
MinesTile(t) ==
    /\ CanStart(t)
    /\ Scheduled
    /\ session.game = "mines"
    /\ Dispatches(session)
    /\ \E clicker \in Users, idx \in ClickedTiles(session) :
         IF ~guard(session.user, clicker)
         THEN /\ Reject(t, "mines_tile", clicker, "NotYours")
              /\ UNCHANGED session
         ELSE IF NotAlive(session)
         THEN /\ Reject(t, "mines_tile", clicker, "SessionNotAlive")
              /\ UNCHANGED session
         ELSE IF AlreadyRevealed(session, idx)
         THEN /\ Reject(t, "mines_tile", clicker, "Deferred")
              /\ UNCHANGED session
         ELSE IF idx \in session.mines
         THEN /\ session' = [session EXCEPT !.alive = FALSE]
              /\ task' = [task EXCEPT ![t] = Settling("mines_tile", clicker, "mines_loss", 0)]
              /\ cpu' = Continues(t)
         ELSE /\ session.safe_total - Cardinality(session.revealed \cup {idx}) = 0
              /\ session' = [session EXCEPT !.revealed = @ \cup {idx}, !.alive = FALSE]
              /\ task' = [task EXCEPT ![t] =
                    Settling("mines_tile", clicker, "mines_win",
                             FullWin(session.bet, session.multiplier))]
              /\ cpu' = Continues(t)
    /\ UNCHANGED <<balance, last_daily, transactions, balance_writes, gate, now, redeemVars>>

\* The same handler on a safe tile that is not the last one: it updates the
\* board and answers, without touching the ledger.
MinesReveal ==
    /\ Scheduled
    /\ session.game = "mines"
    /\ Dispatches(session)
    /\ session.alive
    /\ \E idx \in ClickedTiles(session) :
         /\ ~AlreadyRevealed(session, idx)
         /\ idx \notin session.mines
         /\ session.safe_total - Cardinality(session.revealed \cup {idx}) # 0
         /\ session' = [session EXCEPT !.revealed = @ \cup {idx}]
    /\ UNCHANGED <<balance, last_daily, transactions, balance_writes, gate, cpu, now,
                   task, redeemVars>>

\* MinesView._cashout_button.on_click, up to its first await.
MinesCashout(t) ==
    /\ CanStart(t)
    /\ Scheduled
    /\ session.game = "mines"
    /\ Dispatches(session)
    /\ \E clicker \in Users :
         IF ~guard(session.user, clicker)
         THEN /\ Reject(t, "mines_cashout", clicker, "NotYours")
              /\ UNCHANGED session
         ELSE IF NotAlive(session)
         THEN /\ Reject(t, "mines_cashout", clicker, "SessionNotAlive")
              /\ UNCHANGED session
         ELSE /\ session' = [session EXCEPT !.alive = FALSE]
              /\ task' = [task EXCEPT ![t] = Settling("mines_cashout", clicker, "mines_cashout",
                    payout_now(session.bet, Cardinality(session.revealed),
                               session.safe_total, session.multiplier))]
              /\ cpu' = Continues(t)
    /\ UNCHANGED <<balance, last_daily, transactions, balance_writes, gate, now, redeemVars>>

\* TowerView._render_row.on_click(row, pick), up to its first await.  The
\* buttons of the rows rendered so far carry their own row.
TowerPick(t) ==
    /\ CanStart(t)
    /\ Scheduled
    /\ session.game = "tower"
    /\ Dispatches(session)
    /\ \E clicker \in Users, row \in 0..Min(session.current_row, session.rows - 1),
          pick \in 0..(TowerChoices - 1) :
         IF ~guard(session.user, clicker)
         THEN /\ Reject(t, "tower_pick", clicker, "NotYours")
              /\ UNCHANGED session
         ELSE IF NotAlive(session)
         THEN /\ Reject(t, "tower_pick", clicker, "SessionNotAlive")
              /\ UNCHANGED session
         ELSE IF pick = session.bombs[row + 1]
         THEN /\ session' = [session EXCEPT !.alive = FALSE]
              /\ task' = [task EXCEPT ![t] = Settling("tower_pick", clicker, "tower_loss", 0)]
              /\ cpu' = Continues(t)
         ELSE /\ session.current_row + 1 >= session.rows
              /\ session' = [session EXCEPT !.current_row = @ + 1, !.alive = FALSE,
                                            !.stale = row # session.current_row]
              /\ task' = [task EXCEPT ![t] =
                    Settling("tower_pick", clicker, "tower_win",
                             FullWin(session.bet, session.multiplier))]
              /\ cpu' = Continues(t)
    /\ UNCHANGED <<balance, last_daily, transactions, balance_writes, gate, now, redeemVars>>

\* Variant: rendering a row draws the bomb positions again.
render_row_redraws(view) ==
    [view EXCEPT !.bombs = [r \in DOMAIN @ |-> (@[r] + 1) % TowerChoices]]

\* TowerView._render_row: replaces the row buttons by those of current_row.
\* It reads choices, rows and current_row and assigns no field of the view
\* (the buttons are not part of the model).
render_row(view) == view

\* The same handler on a safe pick below the top: it advances and renders
\* the next row, without touching the ledger.
TowerAdvance ==
    /\ Scheduled
    /\ session.game = "tower"
    /\ Dispatches(session)
    /\ session.alive
    /\ \E row \in 0..Min(session.current_row, session.rows - 1),
          pick \in 0..(TowerChoices - 1) :
         /\ pick # session.bombs[row + 1]
         /\ session.current_row + 1 < session.rows
         /\ session' = render_row([session EXCEPT !.current_row = @ + 1,
                                       !.stale = row # session.current_row])
    /\ UNCHANGED <<balance, last_daily, transactions, balance_writes, gate, cpu, now,
                   task, redeemVars>>

\* TowerView._cashout_button.on_click, up to its first await.
TowerCashout(t) ==
    /\ CanStart(t)
    /\ Scheduled
    /\ session.game = "tower"
    /\ Dispatches(session)
    /\ \E clicker \in Users :
         IF ~guard(session.user, clicker)
         THEN /\ Reject(t, "tower_cashout", clicker, "NotYours")
              /\ UNCHANGED session
         ELSE IF NotAlive(session)
         THEN /\ Reject(t, "tower_cashout", clicker, "SessionNotAlive")
              /\ UNCHANGED session
         ELSE /\ session' = [session EXCEPT !.alive = FALSE]
              /\ task' = [task EXCEPT ![t] = Settling("tower_cashout", clicker, "tower_cashout",
                    payout_now(session.bet, session.current_row, session.rows,
                               session.multiplier))]
              /\ cpu' = Continues(t)
    /\ UNCHANGED <<balance, last_daily, transactions, balance_writes, gate, now, redeemVars>>

SessionOps == {"mines_tile", "mines_cashout", "tower_pick", "tower_cashout"}

\* Variant: the loss is the bet, whatever the balance.
UnclampedLoss(bet, bal) == bet

\* loss = min(self.bet, bal)
ClampedLoss(bet, bal) == Min(bet, bal)

\* bal = await get_balance(); a loss is clamped: loss = min(bet, bal).
SettleGet(t) ==
    /\ task[t].op \in SessionOps /\ task[t].pc = "get"
    /\ Enter(t)
    /\ LET bal == get_balance(task[t].user)
       IN task' = [task EXCEPT ![t].pc = "set", ![t].bal = bal,
                     ![t].amt = IF IsLoss(task[t].ttype)
                                THEN -ClampedLoss(session.bet, bal) ELSE @]
    /\ cpu' = Continues(t)
    /\ UNCHANGED <<balance, last_daily, transactions, balance_writes, gate, now,
                   redeemVars, session>>

SettleSet(t) ==
    /\ task[t].op \in SessionOps /\ task[t].pc = "set"
    /\ Enter(t)
    /\ set_balance(task[t].user, task[t].bal + task[t].amt)
    /\ session' = [session EXCEPT !.writes = @ + 1]
    /\ task' = [task EXCEPT ![t].pc = "tx"]
    /\ cpu' = Continues(t)
    /\ UNCHANGED <<last_daily, transactions, gate, now, redeemVars>>

SettleTx(t) ==
    /\ task[t].op \in SessionOps /\ task[t].pc = "tx"
    /\ Enter(t)
    /\ add_transaction(task[t].user, task[t].ttype, task[t].amt)
    /\ session' = [session EXCEPT !.records = @ + 1]
    /\ Finish(t, "settled")
    /\ UNCHANGED <<balance, last_daily, balance_writes, gate, now, redeemVars>>

\* ---------------------------------------------------------- storage failure
\* The positions of a handler at which its next step is a write of the store.
WritePcs == {"set", "tx", "set_sender", "set_recv", "tx_send", "tx_recv"}

\* sqlite3 raises inside set_balance / add_transaction: the with block of
\* the helper commits nothing, the exception leaves the handler, which makes
\* no attempt to undo what its earlier helper calls committed.
StorageFails(t) ==
    /\ task[t].pc \in WritePcs
    /\ Enter(t)
    /\ Finish(t, "StorageFailure")
    /\ UNCHANGED <<balance, last_daily, transactions, balance_writes, gate, now,
                   redeemVars, session>>

\* ============================================================ specifications
\* A rejected /daily of a user who claimed before, awaiting the delivery of
\* its message inside the db_lock block.
RejectedDaily ==
    [Idle EXCEPT !.op = "daily", !.pc = "reject_send",
                 !.user = CHOOSE u \in ClaimedBefore : TRUE]

\* n handlers to dispatch, session s and, if held, a rejected /daily in
\* flight that holds db_lock.
InitWith(n, s, held) ==
    /\ balance = [u \in Users |-> InitBal]
    /\ last_daily = [u \in Users |-> IF u \in ClaimedBefore THEN 0 ELSE NoTime]
    /\ transactions = <<>>
    /\ balance_writes = [u \in Users |-> 0]
    /\ gate = IF held THEN n + 1 ELSE 0
    /\ waiters = <<>>
    /\ cpu = 0
    /\ now = 0
    /\ task = IF held THEN [t \in 1..(n + 1) |-> IF t <= n THEN Idle ELSE RejectedDaily]
               ELSE [t \in 1..n |-> Idle]
    /\ rewards = <<RewardCost>>
    /\ redeems = <<>>
    /\ staff_channel = FALSE
    /\ reviews = {}
    /\ dms = <<>>
    /\ channels = <<>>
    /\ session = s

\* Every action of a handler is a disjunct of its own, for any handler t.
GameActions ==
    \/ \E t \in Tasks : CoinflipGet(t)
    \/ \E t \in Tasks : CoinflipTx(t)
    \/ \E t \in Tasks : CoinflipSet(t)
    \/ \E t \in Tasks : SlotsGet(t)
    \/ \E t \in Tasks : SlotsTx(t)
    \/ \E t \in Tasks : SlotsSet(t)
    \/ \E t \in Tasks : RouletteGet(t)
    \/ \E t \in Tasks : RouletteTx(t)
    \/ \E t \in Tasks : RouletteSet(t)

DailyActions ==
    \/ \E t \in Tasks : DailyClaim(t)
    \/ \E t \in Tasks : DailyRejectSend(t)
    \/ \E t \in Tasks : DailyTx(t)

GiftActions ==
    \/ \E t \in Tasks : GiftGetSender(t)
    \/ \E t \in Tasks : GiftSetSender(t)
    \/ \E t \in Tasks : GiftGetRecv(t)
    \/ \E t \in Tasks : GiftSetRecv(t)
    \/ \E t \in Tasks : GiftTxSend(t)
    \/ \E t \in Tasks : GiftTxRecv(t)

SetcyanActions ==
    \/ \E t \in Tasks : SetcyanSet(t)
    \/ \E t \in Tasks : SetcyanTx(t)

CreateActions ==
    \/ \E t \in Tasks : RedeemLookup(t)
    \/ \E t \in Tasks : RedeemGet(t)
    \/ \E t \in Tasks : RedeemSet(t)
    \/ \E t \in Tasks : RedeemTx(t)

ReviewActions ==
    \/ \E t \in Tasks : RedeemNotify(t)
    \/ \E t \in Tasks : Finalize(t)
    \/ \E t \in Tasks : FinalizeDm(t)
    \/ \E t \in Tasks : FinalizeOpenTicket(t)
    \/ \E t \in Tasks : FinalizeTicketSend(t)
    \/ \E t \in Tasks : Close(t)
    \/ \E t \in Tasks : CloseDelete(t)
    \/ remove_reward
    \/ setstaffchannel

SettleActions ==
    \/ \E t \in Tasks : MinesTile(t)
    \/ \E t \in Tasks : MinesCashout(t)
    \/ \E t \in Tasks : TowerPick(t)
    \/ \E t \in Tasks : TowerCashout(t)
    \/ \E t \in Tasks : SettleGet(t)
    \/ \E t \in Tasks : SettleSet(t)
    \/ \E t \in Tasks : SettleTx(t)

PlayActions ==
    MinesStart \/ MinesReveal \/ TowerStart \/ TowerAdvance \/ SessionTimeout

LockActions == \E t \in Tasks : Block(t)

ModalActions == \E t \in Tasks : RouletteNumberInvalid(t)

GuardActions == \E t \in Tasks : PanelRefuses(t)

FailureActions == \E t \in Tasks : StorageFails(t)

\* Sessions in progress when the ledger specification starts: a mines board
\* (normal difficulty) with all safe tiles but one revealed, and a tower with
\* all rows but one passed.
OpenSessions ==
    { [NoSession EXCEPT !.game = "mines", !.user = 1, !.bet = 20, !.alive = TRUE,
          !.mines = 0..(DIFFS.normal[1] - 1),
          !.revealed = DIFFS.normal[1]..(MinesSize * MinesSize - 2),
          !.safe_total = MinesSize * MinesSize - DIFFS.normal[1],
          !.multiplier = DIFFS.normal[2], !.start_bal = InitBal],
      [NoSession EXCEPT !.game = "tower", !.user = 2, !.bet = 10, !.alive = TRUE,
          !.bombs = [r \in 1..TowerRows |-> r % TowerChoices],
          !.current_row = TowerRows - 1, !.rows = TowerRows,
          !.multiplier = TOWER_FULL_MULT, !.start_bal = InitBal] }

\* The ledger: every handler that writes a balance, with a session open.
Init == \E s \in OpenSessions : InitWith(MaxTasks, s, TRUE)
Next ==
    \/ GameActions \/ DailyActions \/ GiftActions \/ SetcyanActions
    \/ CreateActions \/ SettleActions \/ LockActions
Spec == Init /\ [][Next]_vars

\* /daily and /gift, the handler with the most calls of a helper, with a
\* rejected /daily holding db_lock at the start.  The event loop runs every handler that is ready (the
\* ready queue is first in, first out), so a handler that was dispatched and
\* can continue does continue: weak fairness of the steps of every handler
\* after its dispatch.  No fairness is assumed for dispatches.
GateHandlers == 1..(MaxTasks + 1)
GateStep(t) ==
    \/ DailyClaim(t) \/ DailyRejectSend(t) \/ DailyTx(t)
    \/ GiftGetSender(t) \/ GiftSetSender(t) \/ GiftGetRecv(t)
    \/ GiftSetRecv(t) \/ GiftTxSend(t) \/ GiftTxRecv(t)
    \/ Block(t)
Resumes(t) == t \in Tasks /\ task[t].pc # "idle" /\ GateStep(t)
InitGate == InitWith(MaxTasks, NoSession, TRUE)
NextGate == DailyActions \/ GiftActions \/ LockActions
FairGate == \A t \in GateHandlers : WF_vars(Resumes(t))
SpecGate == InitGate /\ [][NextGate]_vars /\ FairGate

\* The session with clicks of its owner and of other users, db_lock free.
InitGuard == InitWith(MaxTasks, NoSession, FALSE)
NextGuard == PlayActions \/ SettleActions \/ GuardActions
SpecGuard == InitGuard /\ [][NextGuard]_vars

\* The ledger without sessions and redemptions, from a free db_lock, with
\* the clock advancing and the roulette number modal.
InitLedger == InitWith(MaxTasks, NoSession, FALSE)
NextLedger ==
    \/ GameActions \/ DailyActions \/ GiftActions \/ SetcyanActions \/ LockActions
    \/ ModalActions \/ Tick
SpecLedger == InitLedger /\ [][NextLedger]_vars

\* The state after /setstaffchannel and one completed Create of user 1: the
\* request is pending and its review panel is posted.
InitAfterCreate(n) ==
    /\ balance = [u \in Users |-> IF u = 1 THEN InitBal - RewardCost ELSE InitBal]
    /\ last_daily = [u \in Users |-> IF u \in ClaimedBefore THEN 0 ELSE NoTime]
    /\ transactions = <<[user |-> 1, type |-> "redeem_request", amount |-> -RewardCost]>>
    /\ balance_writes = [u \in Users |-> IF u = 1 THEN 1 ELSE 0]
    /\ gate = 0
    /\ waiters = <<>>
    /\ cpu = 0
    /\ now = 0
    /\ task = [t \in 1..n |-> Idle]
    /\ rewards = <<RewardCost>>
    /\ redeems = <<[user |-> 1, amount |-> RewardCost, status |-> "pending",
                    reason |-> "", reward_id |-> 1, ticket_channel_id |-> 0]>>
    /\ staff_channel = TRUE
    /\ reviews = {1}
    /\ dms = <<>>
    /\ channels = <<>>
    /\ session = NoSession

\* The redemption workflow, from an empty redeems table or with one request
\* waiting for review.
InitRedeem == InitWith(MaxRedeemTasks, NoSession, FALSE) \/ InitAfterCreate(MaxRedeemTasks)
NextRedeem == CreateActions \/ ReviewActions
SpecRedeem == InitRedeem /\ [][NextRedeem]_vars

\* One mines or tower session, from its start, with /daily running.
InitSession == InitWith(MaxTasks, NoSession, TRUE)
NextSession == PlayActions \/ SettleActions \/ DailyActions \/ LockActions
SpecSession == InitSession /\ [][NextSession]_vars

\* Games and session settlements over a store that may fail on a write.
InitFailure == \E s \in OpenSessions : InitWith(MaxTasks, s, FALSE)
NextFailure == GameActions \/ SettleActions \/ FailureActions
SpecFailure == InitFailure /\ [][NextFailure]_vars

\* Gifts only.
InitGift == InitWith(MaxGiftTasks, NoSession, FALSE)
NextGift == GiftActions
SpecGift == InitGift /\ [][NextGift]_vars

\* ================================================================ properties
RECURSIVE SumUpTo(_, _)
SumUpTo(u, n) ==
    IF n = 0 THEN 0
    ELSE SumUpTo(u, n - 1)
         + (IF transactions[n].user = u THEN transactions[n].amount ELSE 0)

\* The sum of the amounts of the records of user u.
SumOfRecords(u) == SumUpTo(u, Len(transactions))

RecordsOf(u) == {i \in DOMAIN transactions : transactions[i].user = u}

\* SetBalance (/setcyan) was applied to the account of u.
WasSet(u) == \E i \in RecordsOf(u) : transactions[i].type = "owner_set"

\* No handler is between its dispatch and its return.
AllCompleted == \A t \in Tasks : task[t].pc \in {"idle", "done"}

Rejections == {"InsufficientFunds", "InvalidReward", "AlreadyClaimed", "Refused",
               "NotYours", "SessionNotAlive", "Deferred", "AlreadyProcessed"}

\* ----------------------------------------------------------------------- C1
\* C1: once all concurrent balance-changing operations on an account have
\* completed, its balance is its initial balance plus the sum of the deltas
\* of the operations that succeeded (their records); no update is lost.
C1_NoLostUpdate ==
    AllCompleted =>
        \A u \in Users : ~WasSet(u) => balance[u] = InitBal + SumOfRecords(u)

\* ----------------------------------------------------------------------- C2
\* C2: in every reachable state every account's stored balance is >= 0.
C2_BalanceNonNegative == \A u \in Users : balance[u] >= 0

\* A debit has emptied an account.
C2_Witness ==
    \E u \in Users :
        /\ balance[u] = 0
        /\ \E i \in RecordsOf(u) : transactions[i].amount < 0

\* ----------------------------------------------------------------------- C3
ResolvesOf(r) == {t \in Tasks : task[t].op = "resolve" /\ task[t].target = r}

\* The Resolve calls on r that passed the status check.
Winners(r) == {t \in ResolvesOf(r) : task[t].resp # "AlreadyProcessed"}

DmsOf(r) == {i \in DOMAIN dms : dms[i].request_id = r}

TicketsOf(r) == {c \in DOMAIN channels : channels[c].request_id = r}

\* C3: of the Resolve calls on one request exactly one succeeds as soon as
\* the request is resolved, every other one returns AlreadyProcessed; the
\* stored status and reason are the winner's decision, and the notification
\* and the ticket are the winner's alone.
C3_OneResolveWins ==
    \A r \in DOMAIN redeems :
        /\ Cardinality(Winners(r)) <= 1
        /\ redeems[r].status # "pending" <=> Cardinality(Winners(r)) = 1
        /\ \A t \in Winners(r) :
             /\ task[t].pc # "done" =>
                    /\ redeems[r].status = task[t].ttype
                    /\ redeems[r].reason = task[t].note
             /\ task[t].resp = "Denied" => redeems[r].status = "denied"
             /\ task[t].resp \in {"Approved", "TicketError"} =>
                    redeems[r].status \in {"approved", "completed"}
        /\ \A t \in ResolvesOf(r) \ Winners(r) : task[t].pc = "done"
        /\ Cardinality(DmsOf(r)) <= 1
        /\ \A i \in DmsOf(r) :
             /\ dms[i].note = redeems[r].reason
             /\ dms[i].status = "denied" <=> redeems[r].status = "denied"
        /\ Cardinality(TicketsOf(r)) <= 1
        /\ TicketsOf(r) # {} => redeems[r].status \in {"approved", "completed"}

\* Two Resolve calls on one request overlap: one was turned away while the
\* other, which passed the check, has not yet notified the user.
C3_Witness ==
    \E r \in DOMAIN redeems, t1 \in Tasks, t2 \in Tasks :
        /\ t1 # t2
        /\ task[t1].op = "resolve" /\ task[t1].target = r
        /\ task[t1].resp = "AlreadyProcessed"
        /\ At(t2, "resolve", "dm") /\ task[t2].target = r

\* ----------------------------------------------------------------------- C4
LegalStatusChange(old, new) ==
    \/ old = "pending" /\ new \in {"approved", "denied"}
    \/ old = "approved" /\ new = "completed"

\* C4: every change of a stored status is pending -> approved, pending ->
\* denied or approved -> completed; a new request is stored as pending.
C4_LegalStatusChanges ==
    [][/\ Len(redeems') >= Len(redeems)
       /\ \A r \in DOMAIN redeems' :
            IF r \in DOMAIN redeems
            THEN \/ redeems'[r].status = redeems[r].status
                 \/ LegalStatusChange(redeems[r].status, redeems'[r].status)
            ELSE redeems'[r].status = "pending"]_vars

\* Complete was applied to an approved request, and a later Resolve on it
\* was turned away.
C4_Witness ==
    \E r \in DOMAIN redeems :
        /\ redeems[r].status = "completed"
        /\ \E t \in Tasks : task[t].op = "close"
        /\ \E t \in ResolvesOf(r) : task[t].resp = "AlreadyProcessed"

\* ----------------------------------------------------------------------- C5
RECURSIVE ChargedUpTo(_, _)
ChargedUpTo(u, n) ==
    IF n = 0 THEN 0
    ELSE ChargedUpTo(u, n - 1) + (IF redeems[n].user = u THEN redeems[n].amount ELSE 0)

\* The only balance-changing operations applied to u are redeem charges.
OnlyCharged(u) == \A i \in RecordsOf(u) : transactions[i].type = "redeem_request"

\* C5: the balance of a user is reduced by exactly the charged amounts of
\* the requests created for them, also when Creates run concurrently.
C5_ChargedExactlyOnce ==
    AllCompleted =>
        \A u \in Users :
            OnlyCharged(u) => balance[u] = InitBal - ChargedUpTo(u, Len(redeems))

\* ----------------------------------------------------------------------- C6
Settlers == {t \in Tasks : task[t].op \in SessionOps /\ task[t].pc \in {"get", "set", "tx"}}

\* C6: at most one settlement of a session reaches the ledger; the session
\* is not alive when its balance write runs; and a session ended by a
\* terminal step has, once its handlers completed, exactly one balance
\* write and one transaction record.
C6_OneSettlement ==
    /\ Cardinality(Settlers) <= 1
    /\ session.writes <= 1 /\ session.records <= 1
    /\ session.records <= session.writes
    /\ (Settlers # {} \/ session.writes > 0) => ~session.alive
    /\ (session.game # "none" /\ ~session.alive) =>
           Settlers # {} \/ (session.writes = 1 /\ session.records = 1)

\* A double click raced on a session: the second click was turned away
\* while the first, waiting for db_lock, had not yet written the balance.
C6_Witness ==
    /\ session.writes = 0
    /\ \E t1 \in Settlers, t2 \in Tasks :
         /\ Waiting(t1)
         /\ task[t2].op \in SessionOps
         /\ task[t2].resp = "SessionNotAlive"

\* ----------------------------------------------------------------------- C7
\* C7: whenever the gate is free, the balance of an account never subject to
\* SetBalance is its initial balance plus the sum of its records.
C7_LedgerMatchesLogWhenGateFree ==
    (gate = 0 /\ cpu = 0) =>
        \A u \in Users : WasSet(u) \/ balance[u] = SumOfRecords(u) + InitBal

\* ----------------------------------------------------------------------- C8
\* C8: after all handlers have completed, the records of each user are as
\* many as the balance writes applied to that user; handlers that were all
\* rejected leave no record and no write.
C8_OneRecordPerWrite ==
    AllCompleted =>
        /\ \A u \in Users : Cardinality(RecordsOf(u)) = balance_writes[u]
        /\ (\A t \in Tasks : task[t].pc = "done" => task[t].resp \in Rejections) =>
               /\ transactions = <<>>
               /\ \A u \in Users : balance_writes[u] = 0

\* One operation succeeded, another was rejected, and both have completed.
C8_Witness ==
    /\ AllCompleted
    /\ \E t1 \in Tasks, t2 \in Tasks :
         /\ task[t1].pc = "done" /\ task[t1].resp \notin Rejections
         /\ task[t2].pc = "done" /\ task[t2].resp = "InsufficientFunds"
    /\ \E u \in Users : balance_writes[u] > 0

\* ----------------------------------------------------------------------- C9
\* The sender legs recorded for u.
GiftedBy(u) == {i \in RecordsOf(u) : transactions[i].type = "gift_send"}

\* C9: with gifts only, once they have all completed the sum of all
\* balances is the initial sum, and each account holds its initial balance
\* plus the amounts of its gift legs.
C9_GiftsConserveTotal ==
    AllCompleted =>
        /\ balance[1] + balance[2] = InitBal + InitBal
        /\ \A u \in Users : balance[u] = InitBal + SumOfRecords(u)
        /\ SumOfRecords(1) + SumOfRecords(2) = 0

\* Two gifts of one sender and a gift back to that sender have completed.
C9_Witness ==
    /\ AllCompleted
    /\ \E u \in Users, v \in Users :
         /\ u # v
         /\ Cardinality(GiftedBy(u)) = 2
         /\ Cardinality(GiftedBy(v)) = 1

\* ---------------------------------------------------------------------- C10
\* C10: a Resolve call that finds its request not pending returns
\* AlreadyProcessed at once, and its step changes no request (status,
\* reason, ticket reference), sends no notification and opens no ticket.
C10_ResolveNonPending ==
    [][\A t \in Tasks :
         (/\ task[t].pc = "idle"
          /\ task'[t].op = "resolve"
          /\ redeems[task'[t].target].status # "pending")
         => /\ task'[t].pc = "done"
            /\ task'[t].resp = "AlreadyProcessed"
            /\ UNCHANGED <<redeems, dms, channels>>]_vars

\* A Resolve call on a denied request has been turned away.
C10_Witness ==
    \E t \in Tasks :
        /\ task[t].op = "resolve"
        /\ task[t].resp = "AlreadyProcessed"
        /\ redeems[task[t].target].status = "denied"

\* ---------------------------------------------------------------------- C11
\* A step of a Resolve or Complete handler.
ReviewStep == \E t \in Tasks : task'[t] # task[t] /\ task'[t].op \in {"resolve", "close"}

\* C11: Resolve (either decision) and Complete leave every balance and the
\* transaction log unchanged; once the handlers have completed, a user is
\* still charged for every request created for them, denied ones included.
C11_ResolveLeavesLedger ==
    /\ [][ReviewStep => UNCHANGED <<balance, balance_writes, transactions>>]_vars
    /\ [](AllCompleted =>
            \A r \in DOMAIN redeems :
                balance[redeems[r].user] =
                    InitBal - ChargedUpTo(redeems[r].user, Len(redeems)))

\* A request was denied, every handler has returned, and the user is still
\* charged.
C11_Witness ==
    /\ AllCompleted
    /\ \E r \in DOMAIN redeems :
         /\ redeems[r].status = "denied"
         /\ \E t \in ResolvesOf(r) : task[t].resp = "Denied"
         /\ balance[redeems[r].user] < InitBal

\* ---------------------------------------------------------------------- C12
\* C12: a Create whose reward is not in the catalog when it is called
\* returns InvalidReward, a Create whose cost exceeds the balance it reads
\* returns InsufficientFunds, and neither changes a balance, the log or the
\* requests; every other Create goes on to charge.
C12_CreateRejections ==
    [][\A t \in Tasks :
         /\ (task[t].pc = "idle" /\ task'[t].op = "redeem") =>
                /\ task'[t].resp = "InvalidReward" =>
                       /\ \E rid \in DOMAIN rewards : rewards[rid] = 0
                       /\ task'[t].pc = "done"
                       /\ UNCHANGED <<balance, transactions, redeems>>
                /\ (\A rid \in DOMAIN rewards : rewards[rid] = 0) =>
                       task'[t].resp = "InvalidReward"
                /\ task'[t].resp # "InvalidReward" =>
                       /\ task'[t].pc = "get"
                       /\ rewards[task'[t].target] # 0
                       /\ task'[t].amt = rewards[task'[t].target]
         /\ (At(t, "redeem", "get") /\ task'[t].pc # "get") =>
                IF task[t].amt > balance[task[t].user]
                THEN /\ task'[t].pc = "done"
                     /\ task'[t].resp = "InsufficientFunds"
                     /\ UNCHANGED <<balance, transactions, redeems>>
                ELSE /\ task'[t].pc = "set"
                     /\ task'[t].bal = balance[task[t].user]]_vars

\* One Create was refused for lack of funds and one for a reward that had
\* been removed, after a Create that went through.
C12_Witness ==
    /\ redeems # <<>>
    /\ \E t1 \in Tasks, t2 \in Tasks :
         /\ task[t1].op = "redeem" /\ task[t1].resp = "InsufficientFunds"
         /\ task[t2].op = "redeem" /\ task[t2].resp = "InvalidReward"

\* ---------------------------------------------------------------------- C13
\* C13: a request whose status is completed or denied keeps every field
\* (status, reason, ticket reference, charged amount, reward id) in every
\* later step.
C13_TerminalImmutable ==
    [][\A r \in DOMAIN redeems :
         redeems[r].status \in {"completed", "denied"} =>
             /\ r \in DOMAIN redeems'
             /\ redeems'[r] = redeems[r]]_vars

\* Complete was applied twice to one request (two clicks on Close Ticket
\* before the channel was deleted), and its reward has been removed.
C13_Witness ==
    \E r \in DOMAIN redeems, t1 \in Tasks, t2 \in Tasks :
        /\ redeems[r].status = "completed"
        /\ t1 # t2
        /\ task[t1].op = "close" /\ task[t2].op = "close"
        /\ rewards[redeems[r].reward_id] = 0

\* ---------------------------------------------------------------------- C14
\* The Resolve calls on r that reached _open_ticket.
Provisioners(r) ==
    {t \in ResolvesOf(r) : \/ task[t].pc \in {"open", "ticket_send"}
                           \/ task[t].resp \in {"Approved", "TicketError"}}

\* C14: at most one Resolve call per request reaches ticket provisioning,
\* and only on a request it approved; at most one ticket exists per request;
\* a pending or denied request has no ticket and no ticket reference, and a
\* stored reference is that of the request's ticket.
C14_TicketOnlyAfterApproval ==
    \A r \in DOMAIN redeems :
        /\ Cardinality(Provisioners(r)) <= 1
        /\ Cardinality(TicketsOf(r)) <= 1
        /\ \A t \in Provisioners(r) : t \in Winners(r)
        /\ redeems[r].status \in {"pending", "denied"} =>
               /\ Provisioners(r) = {}
               /\ TicketsOf(r) = {}
               /\ redeems[r].ticket_channel_id = 0
        /\ redeems[r].ticket_channel_id # 0 =>
               redeems[r].ticket_channel_id \in TicketsOf(r)

\* A ticket was opened for an approved request, and a second Resolve on that
\* request was turned away without opening another.
C14_Witness ==
    \E r \in DOMAIN redeems :
        /\ redeems[r].status = "approved"
        /\ redeems[r].ticket_channel_id # 0
        /\ \E t \in ResolvesOf(r) : task[t].resp = "AlreadyProcessed"

\* ---------------------------------------------------------------------- C15
\* C15: a mines or tower session exists only with a bet that did not exceed
\* the user's balance when it was started.
C15_StartChecksBalance ==
    session.game # "none" => session.bet <= session.start_bal

\* ---------------------------------------------------------------------- C16
GameOps == {"coinflip", "slots", "roulette"}

\* C16: the first step of a coin-flip, slots or roulette play either rejects
\* it with InsufficientFunds, deciding no outcome and changing no balance and
\* no record, or accepts it with a bet that does not exceed the balance it
\* read; a play whose bet exceeds that balance is therefore never accepted.
C16_GameRejectsHighBet ==
    [][\A t \in Tasks :
         (task[t].pc \in {"idle", "queued"} /\ task'[t].op \in GameOps) =>
            IF task'[t].resp = "InsufficientFunds"
            THEN /\ task'[t].pc = "done"
                 /\ task'[t].ttype = "" /\ task'[t].amt = 0
                 /\ UNCHANGED <<balance, balance_writes, transactions>>
                 /\ \E u \in Users, bet \in ViewBets : bet > balance[u]
            ELSE /\ task'[t].pc = "tx"
                 /\ task'[t].bal = balance[task'[t].user]
                 /\ UNCHANGED <<balance, balance_writes, transactions>>
                 /\ \E bet \in ViewBets :
                      /\ bet <= task'[t].bal
                      /\ \/ task'[t].amt = -bet
                         \/ \E mult \in 1..36 : task'[t].amt = bet * mult]_vars

\* A play was rejected for lack of funds and no record was written, while
\* another play is in progress.
C16_Witness ==
    /\ transactions = <<>>
    /\ \E t1 \in Tasks, t2 \in Tasks :
         /\ task[t1].op \in GameOps /\ task[t1].resp = "InsufficientFunds"
         /\ task[t2].op \in GameOps /\ task[t2].pc = "tx"

\* ---------------------------------------------------------------------- C17
\* The session was cashed out with no tile revealed and no row passed, its
\* settlement is complete, and it is the only write to its user's balance.
CashedOutAtOnce ==
    /\ session.game # "none"
    /\ session.revealed = {} /\ session.current_row = 0
    /\ session.writes = 1 /\ session.records = 1
    /\ balance_writes[session.user] = 1
    /\ \A i \in RecordsOf(session.user) :
         transactions[i].type \in {"mines_cashout", "tower_cashout"}

\* C17: a cash-out with zero progress pays exactly the bet, and leaves the
\* user with no more than they had when the session was started.
C17_CashoutAtOnceGainsNothing ==
    CashedOutAtOnce =>
        /\ \A i \in RecordsOf(session.user) : transactions[i].amount = session.bet
        /\ balance[session.user] <= session.start_bal

\* ---------------------------------------------------------------------- C18
\* C18: when the store failed during a balance mutation, neither the
\* balance change nor its record persists: once the handlers have returned,
\* every balance is the initial balance plus the sum of its records, and
\* each user has as many records as balance writes.
C18_FailureLeavesNoHalf ==
    (AllCompleted /\ \E t \in Tasks : task[t].resp = "StorageFailure") =>
        \A u \in Users :
            /\ balance[u] = InitBal + SumOfRecords(u)
            /\ Cardinality(RecordsOf(u)) = balance_writes[u]

\* ---------------------------------------------------------------------- C19
\* The positions at which a handler awaits a call to Discord (a message, a
\* notification, a channel creation or deletion).
IoPcs == {"reject_send", "notify", "dm", "open", "ticket_send", "delete"}

\* C19: no handler awaits an external call while it holds db_lock.
C19_NoIoUnderGate ==
    \A t \in Tasks : task[t].pc \in IoPcs => gate # t

\* ---------------------------------------------------------------------- C20
DailyRecords(u) == {i \in RecordsOf(u) : transactions[i].type = "daily"}

\* C20: a /daily is accepted only if the user never claimed or claimed at
\* least DAILY_COOLDOWN hours ago, and then adds exactly DAILY_AMOUNT to the
\* balance and stores the time of the claim; a rejected /daily changes no
\* balance, no claim time and no record, at its check and at its return; and
\* the record of an accepted claim is one "daily" record of DAILY_AMOUNT.
C20_DailyCooldown ==
    [][\A t \in Tasks :
         /\ (task[t].pc \in {"idle", "queued"} /\ task'[t].op = "daily") =>
                LET u == task'[t].user
                IN IF task'[t].pc = "reject_send"
                   THEN /\ last_daily[u] # NoTime
                        /\ now - last_daily[u] < DAILY_COOLDOWN
                        /\ UNCHANGED <<balance, last_daily, transactions>>
                   ELSE /\ task'[t].pc = "tx"
                        /\ last_daily[u] = NoTime \/ now - last_daily[u] >= DAILY_COOLDOWN
                        /\ balance' = [balance EXCEPT ![u] = balance[u] + DAILY_AMOUNT]
                        /\ last_daily' = [last_daily EXCEPT ![u] = now]
                        /\ UNCHANGED transactions
         /\ (At(t, "daily", "reject_send") /\ task'[t].pc = "done") =>
                /\ task'[t].resp = "AlreadyClaimed"
                /\ UNCHANGED <<balance, last_daily, transactions>>
         /\ (At(t, "daily", "tx") /\ task'[t].pc = "done") =>
                /\ transactions' = Append(transactions,
                      [user |-> task[t].user, type |-> "daily", amount |-> DAILY_AMOUNT])
                /\ UNCHANGED <<balance, last_daily>>]_vars

\* A user who had claimed was rejected within the cooldown and accepted
\* once it had passed.
C20_Witness ==
    /\ now = DAILY_COOLDOWN
    /\ \E u \in ClaimedBefore :
         /\ last_daily[u] = now
         /\ DailyRecords(u) # {}
    /\ \E t \in Tasks : task[t].op = "daily" /\ task[t].resp = "AlreadyClaimed"

\* ---------------------------------------------------------------------- C21
\* C21: the step that starts a mines or tower session, and every step that
\* changes a session and leaves it alive, changes no balance and appends no
\* record; over its whole life a session makes at most one balance write
\* and one record, both after it stopped being alive.
C21_StartLeavesLedger ==
    /\ [](session.alive => session.writes = 0 /\ session.records = 0)
    /\ [](session.writes <= 1 /\ session.records <= 1)
    /\ [][(session' # session /\ session'.alive) =>
             UNCHANGED <<balance, balance_writes, transactions>>]_vars

\* A session was started and is in play, and its user's account is as it
\* was before: the initial balance, no write, no record.
C21_Witness ==
    /\ session.game # "none" /\ session.alive
    /\ balance[session.user] = InitBal
    /\ balance_writes[session.user] = 0
    /\ RecordsOf(session.user) = {}

\* ---------------------------------------------------------------------- C22
\* The session has been ended by a terminal step.
SessionSettled == session.game # "none" /\ ~session.alive

\* C22: once a session is not alive, no step changes its progress or makes
\* it alive again, and every reveal, pick or cash-out dispatched on it
\* returns at once with a refusal, leaving the session, every balance and
\* the transaction log as they were.
C22_DeadSessionRejects ==
    [][SessionSettled =>
         /\ session'.revealed = session.revealed
         /\ session'.current_row = session.current_row
         /\ session'.alive = session.alive
         /\ \A t \in Tasks :
                (task[t].pc = "idle" /\ task'[t].op \in SessionOps) =>
                    /\ task'[t].pc = "done"
                    /\ task'[t].resp \in {"SessionNotAlive", "NotYours"}
                    /\ UNCHANGED <<session, balance, balance_writes, transactions>>]_vars

\* The settlement of the session is complete, and a later click of its own
\* user, on a tile, a row or Cash Out, was answered "Game over."
C22_Witness ==
    /\ SessionSettled
    /\ session.writes = 1 /\ session.records = 1
    /\ Settlers = {}
    /\ \E t \in Tasks : task[t].op \in SessionOps /\ task[t].resp = "SessionNotAlive"

\* ---------------------------------------------------------------------- C23
\* C23: from the step that creates a session on, no step changes its mines
\* set or the bomb position of any of its tower rows, nor turns it into a
\* session of another game or user: reveals, advances with their row
\* re-renders, cash-outs, refusals and settlements all leave the layout.
C23_LayoutFixed ==
    [][session.game # "none" =>
         /\ session'.mines = session.mines
         /\ session'.bombs = session.bombs
         /\ session'.game = session.game
         /\ session'.user = session.user]_vars

\* A tower session whose rows were rendered again at least twice and that
\* was then ended and settled.
C23_Witness ==
    /\ session.game = "tower"
    /\ session.current_row >= 2
    /\ ~session.alive
    /\ session.records = 1

\* ---------------------------------------------------------------------- C24
\* The session timed out while in play: no terminal step had ended it.
TimedOutInPlay == session.timed_out /\ session.alive

\* C24: the step at which a session times out changes no balance and
\* appends no record; and a session that timed out while in play stays as
\* it is for ever: no handler settles it, and it never gets a balance write
\* or a transaction record.
C24_TimeoutNoEffect ==
    /\ [][(~session.timed_out /\ session'.timed_out) =>
             /\ UNCHANGED <<balance, balance_writes, transactions, task>>
             /\ session' = [session EXCEPT !.timed_out = TRUE]]_vars
    /\ [][TimedOutInPlay => session' = session]_vars
    /\ [](TimedOutInPlay =>
             Settlers = {} /\ session.writes = 0 /\ session.records = 0)

\* A session with progress timed out while in play, and handlers have
\* completed since.
C24_Witness ==
    /\ TimedOutInPlay
    /\ session.revealed # {} \/ session.current_row > 0
    /\ \A t \in Tasks : task[t].pc = "done"

\* ---------------------------------------------------------------------- C25
\* The progress of a session and the progress of a full clear.
Progress(view) ==
    IF view.game = "mines" THEN Cardinality(view.revealed) ELSE view.current_row

FullProgress(view) == IF view.game = "mines" THEN view.safe_total ELSE view.rows

\* floor((bet * (total + progress * (mult - 1))) / total), in integers.
FloorPayout(bet, progress, total, mult) ==
    (bet * (total + progress * (mult - 1))) \div total

CashoutRecords ==
    {i \in DOMAIN transactions :
        transactions[i].type \in {"mines_cashout", "tower_cashout"}}

\* C25: at every progress of a session the potential cash-out computed by
\* _payout_now is the exact integer floor of bet * (1 + progress / total *
\* (mult - 1)); it is the bet at zero progress and bet * mult at full
\* progress; and the record of a cash-out carries exactly this value.
C25_PayoutIsExactFloor ==
    session.game # "none" =>
        LET exact == FloorPayout(session.bet, Progress(session),
                                 FullProgress(session), session.multiplier)
        IN /\ payout_now(session.bet, Progress(session), FullProgress(session),
                         session.multiplier) = exact
           /\ Progress(session) = 0 => exact = session.bet
           /\ Progress(session) = FullProgress(session) =>
                  exact = session.bet * session.multiplier
           /\ \A i \in CashoutRecords : transactions[i].amount = exact

\* ---------------------------------------------------------------------- C26
\* Handler t takes the step from position from to position to.
SettleStep(t, from, to) ==
    /\ task[t].op \in SessionOps
    /\ task[t].pc = from /\ task'[t].pc = to

LossRecords ==
    {i \in DOMAIN transactions : IsLoss(transactions[i].type)}

\* C26: a click on a trap ends the session; its handler then reads the
\* balance, takes min(bet, balance read) as the loss, writes the balance
\* max(balance read - bet, 0) and appends a loss record of minus the loss.
\* When that write is the only one made to the account since the session
\* started, the balance after it is max(balance at start - bet, 0).
C26_TrapDebitsClampedBet ==
    /\ [][\A t \in Tasks :
            /\ (task[t].pc = "idle" /\ IsLoss(task'[t].ttype)) =>
                   session.alive /\ ~session'.alive
            /\ (SettleStep(t, "get", "set") /\ IsLoss(task[t].ttype)) =>
                   /\ task'[t].bal = balance[task[t].user]
                   /\ task'[t].amt = -Min(session.bet, balance[task[t].user])
            /\ (SettleStep(t, "set", "tx") /\ IsLoss(task[t].ttype)) =>
                   /\ balance'[task[t].user] = Max(task[t].bal - session.bet, 0)
                   /\ balance'[task[t].user] = task[t].bal + task[t].amt
            /\ (SettleStep(t, "tx", "done") /\ IsLoss(task[t].ttype)) =>
                   transactions' = Append(transactions,
                       [user |-> task[t].user, type |-> task[t].ttype,
                        amount |-> task[t].amt])]_vars
    /\ [](\A i \in LossRecords :
             balance_writes[session.user] = 1 =>
                 /\ transactions[i].amount = -Min(session.bet, session.start_bal)
                 /\ balance[session.user] = Max(session.start_bal - session.bet, 0))

\* A trap was hit with a bet above the balance: the loss recorded is the
\* whole balance, not the bet, and the balance is 0.
C26_Witness ==
    /\ session.bet > session.start_bal /\ session.start_bal > 0
    /\ balance_writes[session.user] = 1
    /\ balance[session.user] = 0
    /\ \E i \in LossRecords : transactions[i].amount = -session.start_bal

\* ---------------------------------------------------------------------- C27
IsWin(ttype) == ttype \in {"mines_win", "tower_win"}

WinRecords == {i \in DOMAIN transactions : IsWin(transactions[i].type)}

\* C27: the step that brings a session to full progress (the last safe
\* tile, a safe pick on the last row) ends it and is the first step of a
\* handler that settles a win of bet * multiplier, with no cash-out click;
\* that handler credits exactly this amount to the balance it read and
\* appends one win record of it.  When it is the only write since the
\* session started, the balance is the balance at start plus bet * multiplier.
C27_FullClearSettles ==
    /\ [][/\ (session.alive /\ Progress(session') # Progress(session)
                /\ Progress(session') = FullProgress(session)) =>
                  /\ ~session'.alive
                  /\ \E t \in Tasks :
                        /\ task[t].pc = "idle" /\ task'[t].pc = "get"
                        /\ task'[t].op \in {"mines_tile", "tower_pick"}
                        /\ IsWin(task'[t].ttype)
                        /\ task'[t].amt = session.bet * session.multiplier
           /\ \A t \in Tasks :
                /\ (SettleStep(t, "set", "tx") /\ IsWin(task[t].ttype)) =>
                       balance'[task[t].user] =
                           task[t].bal + session.bet * session.multiplier
                /\ (SettleStep(t, "tx", "done") /\ IsWin(task[t].ttype)) =>
                       transactions' = Append(transactions,
                           [user |-> task[t].user, type |-> task[t].ttype,
                            amount |-> session.bet * session.multiplier])]_vars
    /\ [](/\ Cardinality(WinRecords) <= 1
          /\ \A i \in WinRecords :
                /\ ~session.alive
                /\ Progress(session) = FullProgress(session)
                /\ transactions[i].user = session.user
                /\ transactions[i].amount = session.bet * session.multiplier
                /\ balance_writes[session.user] = 1 =>
                       balance[session.user] =
                           session.start_bal + session.bet * session.multiplier)

\* A session was cleared and settled without any click on Cash Out: the
\* win record is there and the balance has grown by bet * multiplier.
C27_Witness ==
    /\ WinRecords # {}
    /\ session.records = 1
    /\ balance[session.user] = session.start_bal + session.bet * session.multiplier
    /\ \A t \in Tasks : task[t].op \notin {"mines_cashout", "tower_cashout"}

\* ---------------------------------------------------------------------- C28
\* Handler t of game op takes the step that decides the game.
GameDecided(t, op) == task[t].pc \in {"idle", "queued"} /\ At(t, op, "tx")'

\* Handler t of game op takes the step from position from to position to.
GameStep(t, op, from, to) == At(t, op, from) /\ At(t, op, to)'

\* The account of u has had one write and one record since the start.
OneOperationOn(u) == balance_writes[u] = 1 /\ Cardinality(RecordsOf(u)) = 1

\* The outcome of the coin-flip over all calls, draws and bets.
CoinflipTable ==
    \A choice \in Sides, result \in Sides, bet \in ViewBets :
        coinflip_outcome(choice, result, bet) =
            IF choice = result THEN <<"coinflip_win", bet>>
            ELSE <<"coinflip_loss", -bet>>

\* C28: for every call, draw and bet the coin-flip decides a coinflip_win
\* of +bet when the draw equals the call and a coinflip_loss of -bet
\* otherwise; the handler decides it for a bet not above the balance it
\* read, appends exactly that record and writes the balance read plus that
\* amount.  An account whose only operation was one coin-flip holds its
\* initial balance plus the bet after a win, minus the bet after a loss.
C28_CoinflipPaysBet ==
    /\ [](CoinflipTable)
    /\ [][\A t \in Tasks :
            /\ GameDecided(t, "coinflip") =>
                   /\ task'[t].bal = balance[task'[t].user]
                   /\ \E bet \in ViewBets :
                         /\ bet <= task'[t].bal
                         /\ <<task'[t].ttype, task'[t].amt>> \in
                                {<<"coinflip_win", bet>>, <<"coinflip_loss", -bet>>}
            /\ GameStep(t, "coinflip", "tx", "set") =>
                   transactions' = Append(transactions,
                       [user |-> task[t].user, type |-> task[t].ttype,
                        amount |-> task[t].amt])
            /\ (At(t, "coinflip", "set") /\ task'[t].pc = "done") =>
                   balance'[task[t].user] = task[t].bal + task[t].amt]_vars
    /\ [](\A u \in Users : \A i \in RecordsOf(u) :
             (OneOperationOn(u) /\ AllCompleted) =>
                 /\ transactions[i].type = "coinflip_win" =>
                        /\ transactions[i].amount \in ViewBets
                        /\ balance[u] = InitBal + transactions[i].amount
                 /\ transactions[i].type = "coinflip_loss" =>
                        /\ -transactions[i].amount \in ViewBets
                        /\ balance[u] = InitBal + transactions[i].amount)

\* One user won a coin-flip and the other lost one, each as the only
\* operation on the account.
C28_Witness ==
    /\ AllCompleted
    /\ \E u, v \in Users :
         /\ OneOperationOn(u) /\ OneOperationOn(v)
         /\ \E i \in RecordsOf(u) :
              /\ transactions[i].type = "coinflip_win"
              /\ balance[u] = InitBal + MIN_BET
         /\ \E i \in RecordsOf(v) :
              /\ transactions[i].type = "coinflip_loss"
              /\ balance[v] = InitBal - MIN_BET

\* ---------------------------------------------------------------------- C29
Reels == [1..3 -> Symbols]

\* The number of distinct symbols on a reel.
Distinct(reel) == Cardinality({reel[i] : i \in 1..3})

\* The slots multiplier over all reels.
SlotsTable ==
    \A reel \in Reels :
        SlotsMult(reel) = CASE Distinct(reel) = 1 -> 10
                            [] Distinct(reel) = 2 -> 2
                            [] Distinct(reel) = 3 -> 0

\* C29: over all triples of symbols the slots multiplier is 10 when the
\* three are equal, 2 when exactly two are equal and 0 when all differ.
\* The handler decides, for a bet not above the balance it read, a
\* slots_loss of -bet for multiplier 0 and a slots_win of +bet * multiplier
\* otherwise, appends exactly that record and writes the balance read plus
\* that amount: a win is credited in full, the bet is not taken off.
C29_SlotsMultiplier ==
    /\ [](SlotsTable)
    /\ [][\A t \in Tasks :
            /\ GameDecided(t, "slots") =>
                   /\ task'[t].bal = balance[task'[t].user]
                   /\ \E bet \in ViewBets :
                         /\ bet <= task'[t].bal
                         /\ <<task'[t].ttype, task'[t].amt>> \in
                                {<<"slots_loss", -bet>>, <<"slots_win", 2 * bet>>,
                                 <<"slots_win", 10 * bet>>}
            /\ GameStep(t, "slots", "tx", "set") =>
                   transactions' = Append(transactions,
                       [user |-> task[t].user, type |-> task[t].ttype,
                        amount |-> task[t].amt])
            /\ (At(t, "slots", "set") /\ task'[t].pc = "done") =>
                   balance'[task[t].user] = task[t].bal + task[t].amt]_vars
    /\ [](\A u \in Users : \A i \in RecordsOf(u) :
             (OneOperationOn(u) /\ AllCompleted) =>
                 /\ transactions[i].type = "slots_win" =>
                        /\ \E bet \in ViewBets :
                              transactions[i].amount \in {2 * bet, 10 * bet}
                        /\ balance[u] = InitBal + transactions[i].amount
                 /\ transactions[i].type = "slots_loss" =>
                        /\ -transactions[i].amount \in ViewBets
                        /\ balance[u] = InitBal + transactions[i].amount)

\* Three equal symbols for one user, as the only operation on the account:
\* ten times the bet was added to the balance; the other user lost a bet.
C29_Witness ==
    /\ AllCompleted
    /\ \E u, v \in Users :
         /\ OneOperationOn(u) /\ OneOperationOn(v)
         /\ \E i \in RecordsOf(u) :
              /\ transactions[i].type = "slots_win"
              /\ balance[u] = InitBal + 10 * MIN_BET
         /\ \E i \in RecordsOf(v) :
              /\ transactions[i].type = "slots_loss"
              /\ balance[v] = InitBal - MIN_BET

\* ---------------------------------------------------------------------- C30
\* The roulette multiplier over all draws, bet kinds and numbers.
RouletteTable ==
    /\ \A r \in 0..36 :
         /\ RouletteWinMult("red", 0, r) = IF r \in ROULETTE_RED THEN 2 ELSE 0
         /\ RouletteWinMult("black", 0, r) = IF r \in ROULETTE_BLACK THEN 2 ELSE 0
         /\ RouletteWinMult("green", 0, r) = IF r = 0 THEN 14 ELSE 0
         /\ \A n \in 0..36 :
               RouletteWinMult("number", n, r) = IF r = n THEN 36 ELSE 0
    /\ \A n \in 0..36 :
         Cardinality({r \in 0..36 : RouletteWinMult("number", n, r) # 0}) = 1

\* The numbers refused by the modal, over the integers typed.
NumberValidation ==
    /\ \A num \in NumberTexts : NumberInvalid(num) <=> num \notin 0..36
    /\ SpinNumbers = 0..36

\* C30: over all draws 0..36, a red bet has multiplier 2 exactly on the red
\* numbers and a black bet exactly on the black numbers, a green bet 14
\* exactly on 0, a bet on the number n 36 exactly on n (one draw of the 37),
\* and 0 otherwise; a number typed is refused exactly when it is outside
\* 0..36, by a handler that returns at once and leaves every balance, the
\* log and db_lock alone.  The spin handler decides, for a bet not above the
\* balance it read, a roulette_loss of -bet for multiplier 0 and a
\* roulette_win of +bet * multiplier otherwise, appends exactly that record
\* and writes the balance read plus that amount.
C30_RoulettePayout ==
    /\ [](RouletteTable /\ NumberValidation)
    /\ [][\A t \in Tasks :
            /\ (task[t].pc = "idle" /\ task'[t].op = "roulette_number") =>
                   /\ task'[t].pc = "done" /\ task'[t].resp = "InvalidNumber"
                   /\ UNCHANGED <<balance, balance_writes, transactions, gate, waiters>>
            /\ GameDecided(t, "roulette") =>
                   /\ task'[t].bal = balance[task'[t].user]
                   /\ \E bet \in ViewBets :
                         /\ bet <= task'[t].bal
                         /\ <<task'[t].ttype, task'[t].amt>> \in
                                {<<"roulette_loss", -bet>>, <<"roulette_win", 2 * bet>>,
                                 <<"roulette_win", 14 * bet>>, <<"roulette_win", 36 * bet>>}
            /\ GameStep(t, "roulette", "tx", "set") =>
                   transactions' = Append(transactions,
                       [user |-> task[t].user, type |-> task[t].ttype,
                        amount |-> task[t].amt])
            /\ (At(t, "roulette", "set") /\ task'[t].pc = "done") =>
                   balance'[task[t].user] = task[t].bal + task[t].amt]_vars
    /\ [](\A u \in Users : \A i \in RecordsOf(u) :
             (OneOperationOn(u) /\ AllCompleted) =>
                 /\ transactions[i].type = "roulette_win" =>
                        /\ \E bet \in ViewBets :
                              transactions[i].amount \in {2 * bet, 14 * bet, 36 * bet}
                        /\ balance[u] = InitBal + transactions[i].amount
                 /\ transactions[i].type = "roulette_loss" =>
                        /\ -transactions[i].amount \in ViewBets
                        /\ balance[u] = InitBal + transactions[i].amount)

\* A number out of range was refused, and a bet on a number won 36 times
\* the bet as the only operation on its account.
C30_Witness ==
    /\ \E t \in Tasks : task[t].resp = "InvalidNumber"
    /\ \E u \in Users :
         /\ OneOperationOn(u)
         /\ \E i \in RecordsOf(u) :
              /\ transactions[i].type = "roulette_win"
              /\ balance[u] = InitBal + 36 * MIN_BET

\* ---------------------------------------------------------------------- C31
\* The colours of the wheel, over the constants of the code.
ColourPartition ==
    /\ ROULETTE_RED \cap ROULETTE_BLACK = {}
    /\ Cardinality(ROULETTE_RED) = 18
    /\ Cardinality(ROULETTE_BLACK) = 18
    /\ ROULETTE_RED \cup ROULETTE_BLACK = 1..36
    /\ \A r \in 0..36 :
         /\ RouletteColor(r) \in {"green", "red", "black"}
         /\ RouletteColor(r) = "green" <=> r = 0
         /\ RouletteColor(r) = "red" <=> r \in ROULETTE_RED
         /\ RouletteColor(r) = "black" <=> r \in ROULETTE_BLACK

\* C31: the red and the black numbers are disjoint sets of 18 numbers each
\* whose union is 1..36, and the colour the spin gives to a draw in 0..36
\* is green exactly for 0, red exactly for the red numbers and black
\* exactly for the black numbers.
C31_ColoursPartition == [](ColourPartition)

\* A spin was settled on a colour bet that won: twice the bet was recorded
\* and credited.
C31_Witness ==
    \E u \in Users :
        /\ OneOperationOn(u) /\ AllCompleted
        /\ \E i \in RecordsOf(u) :
             /\ transactions[i].type = "roulette_win"
             /\ transactions[i].amount = 2 * MIN_BET
             /\ balance[u] = InitBal + 2 * MIN_BET

\* ---------------------------------------------------------------------- C32
\* Bets entered: negative, zero, around both ends of the range, inside it,
\* and the bets typed in the model.
ClampCases ==
    {-1, 0, MIN_BET - 1, MIN_BET, MIN_BET + 1, MAX_BET - 1, MAX_BET, MAX_BET + 1}
        \cup BetInputs

ClampTable ==
    \A bet \in ClampCases :
        /\ clamp_bet(bet) \in MIN_BET..MAX_BET
        /\ bet < MIN_BET => clamp_bet(bet) = MIN_BET
        /\ bet > MAX_BET => clamp_bet(bet) = MAX_BET
        /\ bet \in MIN_BET..MAX_BET => clamp_bet(bet) = bet
        /\ clamp_bet(clamp_bet(bet)) = clamp_bet(bet)

GameLosses ==
    {i \in DOMAIN transactions :
        transactions[i].type \in {"coinflip_loss", "slots_loss", "roulette_loss"}}

GameWins ==
    {i \in DOMAIN transactions :
        transactions[i].type \in {"coinflip_win", "slots_win", "roulette_win"}}

\* C32: clamp_bet raises a bet below MIN_BET to MIN_BET, lowers one above
\* MAX_BET to MAX_BET, leaves one inside the range alone and is idempotent;
\* every bet a panel holds is in the range; a game is decided only against
\* a balance of at least MIN_BET, a loss it decides or records is between
\* MIN_BET and MAX_BET, and a win is at least MIN_BET.
C32_BetsClamped ==
    /\ ClampTable
    /\ \A bet \in ViewBets : bet \in MIN_BET..MAX_BET
    /\ \A t \in Tasks :
         (task[t].op \in GameOps /\ task[t].pc \in {"tx", "set"}) =>
             /\ task[t].bal >= MIN_BET
             /\ task[t].amt < 0 => -task[t].amt \in MIN_BET..MAX_BET
             /\ task[t].amt < 0 => -task[t].amt <= task[t].bal
             /\ task[t].amt >= 0 => task[t].amt >= MIN_BET
    /\ \A i \in GameLosses : -transactions[i].amount \in MIN_BET..MAX_BET
    /\ \A i \in GameWins : transactions[i].amount >= MIN_BET

\* A game was played and lost at MIN_BET (the bet of a panel on which a bet
\* below MIN_BET was typed, or none), as the only operation on the account;
\* another game was refused for its bet.
C32_Witness ==
    /\ \E b \in BetInputs : b < MIN_BET
    /\ \E u \in Users :
         /\ OneOperationOn(u)
         /\ \E i \in RecordsOf(u) \cap GameLosses :
              /\ transactions[i].amount = -MIN_BET
              /\ balance[u] = InitBal - MIN_BET
    /\ \E t \in Tasks : task[t].op \in GameOps /\ task[t].resp = "InsufficientFunds"

\* ---------------------------------------------------------------------- C33
\* C33: a click on a mines tile is acknowledged without a message (defer)
\* only on an alive session of the clicking owner that has revealed tiles,
\* and that handler returns at once leaving the session (its revealed set,
\* its alive flag, hence its potential cash-out), every balance and the
\* transaction log unchanged; the acknowledgement is none of the refusals.
C33_RevealedTileNoOp ==
    [][\A t \in Tasks :
          (task[t].pc = "idle" /\ task'[t].resp = "Deferred") =>
              /\ task'[t].op = "mines_tile" /\ task'[t].pc = "done"
              /\ session.game = "mines" /\ session.alive
              /\ session.revealed # {}
              /\ task'[t].resp \notin {"NotYours", "SessionNotAlive", "StorageFailure"}
              /\ UNCHANGED <<session, balance, balance_writes, transactions>>]_vars

\* A revealed tile was clicked again: the click was acknowledged, the
\* session is alive with its tiles revealed and nothing written.
C33_Witness ==
    /\ session.game = "mines" /\ session.alive
    /\ Cardinality(session.revealed) >= 2
    /\ session.writes = 0
    /\ transactions = <<>>
    /\ \E t \in Tasks : task[t].op = "mines_tile" /\ task[t].resp = "Deferred"

\* ---------------------------------------------------------------------- C34
\* C34: current_row stays within 0..rows; it changes only by one, and only
\* by a pick made on the row that was the current one.
C34_AdvanceOnlyOnCurrentRow ==
    /\ [](session.current_row \in 0..session.rows)
    /\ [][(session.game = "tower" /\ session'.current_row # session.current_row) =>
             /\ session'.current_row = session.current_row + 1
             /\ ~session'.stale]_vars

\* ---------------------------------------------------------------------- C35
\* C35: a handler that answers "belongs to someone else" returns at once
\* and leaves the session, every balance and the transaction log unchanged;
\* and every handler that ends or settles a session was started by a click
\* of the session's owner and settles the owner's account.
C35_OnlyOwnerActs ==
    /\ [][\A t \in Tasks :
            (task[t].pc = "idle" /\ task'[t].resp = "NotYours") =>
                /\ task'[t].pc = "done"
                /\ UNCHANGED <<session, balance, balance_writes, transactions>>]_vars
    /\ [](\A t \in Settlers :
             task[t].target = session.user /\ task[t].user = session.user)

\* Someone else pressed a button of an alive session with progress and was
\* turned away, and the session's account has not been written.
C35_Witness ==
    /\ session.alive
    /\ Progress(session) > 0
    /\ balance_writes[session.user] = 0
    /\ \E t \in Tasks : task[t].op \in SessionOps /\ task[t].resp = "NotYours"
    /\ \E t \in Tasks : task[t].op = "panel" /\ task[t].resp = "NotYours"

\* ---------------------------------------------------------------------- C36
\* C36: db_lock is deadlock-free.  The handler that holds it between two
\* steps is a rejected /daily awaiting its message: it is not at a call of a
\* helper and not among the waiters, so it never acquires the lock it holds,
\* and its next step releases the lock.  No handler waits twice.  Under fair
\* scheduling the lock is always released again and every handler waiting
\* for it leaves the waiters, which it does only by entering the block.
C36_GateDeadlockFree ==
    /\ [](gate # 0 => /\ gate \in Tasks
                      /\ task[gate].pc = "reject_send"
                      /\ task[gate].pc \notin AcquirePcs
                      /\ ~Waiting(gate))
    /\ [](\A i, j \in DOMAIN waiters : waiters[i] = waiters[j] => i = j)
    /\ [][\A t \in Tasks : (gate = t /\ task'[t] # task[t]) => gate' = 0]_vars
    /\ [][\A t \in Tasks : (Waiting(t) /\ ~Waiting(t)') =>
              (gate = 0 /\ Head(waiters) = t /\ task'[t] # task[t])]_vars
    /\ (gate # 0) ~> (gate = 0)
    /\ \A t \in GateHandlers : (t \in Tasks /\ Waiting(t)) ~> ~Waiting(t)

\* A rejected /daily has returned and released db_lock, a second one holds
\* it now, and another handler waits for it.
C36_Witness ==
    /\ gate \in 1..MaxTasks
    /\ \E t \in Tasks : t # gate /\ Waiting(t)
    /\ \E t \in Tasks : task[t].op = "daily" /\ task[t].resp = "AlreadyClaimed"

====
